---------------------------- MODULE Spec2Model ----------------------------
(***************************************************************************)
(* Model of the rule-based diagnostic engine (src/diagnostic-engine.js).   *)
(*                                                                         *)
(* The engine takes a RuleSet (hypotheses with initial scores, ordered     *)
(* elimination rules, ordered scoring rules, a next_steps table) and a     *)
(* flat signals map, and computes a ranked diagnosis:                      *)
(*   reset -> applyEliminationRules -> applyScoringRules -> calculateResult*)
(*                                                                         *)
(* JavaScript values are modelled as tagged records, JavaScript objects as *)
(* sequences of entries in own-key order (the order Object.entries and     *)
(* JSON.parse(JSON.stringify(..)) use), and JavaScript numbers that come   *)
(* out of a division as IEEE-754 doubles (53-bit significands, round to    *)
(* nearest even), computed bit by bit.                                     *)
(***************************************************************************)
EXTENDS Integers, Sequences, FiniteSets, TLC

\* The state: one engine as it steps through an analysis, the results page,
\* two invocations on one engine, and the objects on the heap.
VARIABLES
  rules,             \* this.rules, the RuleSet as it was parsed
  hypotheses,        \* this.hypotheses
  eliminatedCauses,  \* this.eliminatedCauses
  appliedRules,      \* this.appliedRules
  signals,           \* the argument of the analyze() in progress or returned
  pc, idx,           \* position of the analysis
  result,            \* what the last analyze() returned
  stale,             \* this analyze() found the fields changed by an earlier one
  evaluated,         \* the rules evaluated by this analyze(), as <<kind, index>>
  warnings,          \* the console.warn calls of this analyze()
  objectFn,          \* the properties score and eliminated of the function Object
  calls,             \* the calls of analyzeBottleneckWithEngine, by number
  missing,           \* the key that the file diagnostic-rules.json lacks
  engineClass,       \* whether DiagnosticEngine is defined on the page
  diagnosticRules,   \* the global cache of loadDiagnosticRules
  inv,               \* two invocations of analyze() on one engine, by number
  heap,              \* the objects made so far, by address
  engines,           \* the fields of the engines built over one RuleSet
  returned           \* what the analyze() calls on these engines gave, in order

(***************************************************************************)
(* JavaScript values                                                       *)
(***************************************************************************)
Num(n)  == [t |-> "number",  n |-> n, s |-> "",  b |-> FALSE]
Str(x)  == [t |-> "string",  n |-> 0, s |-> x,   b |-> FALSE]
Bool(x) == [t |-> "boolean", n |-> 0, s |-> "",  b |-> x]
Null    == [t |-> "null",    n |-> 0, s |-> "",  b |-> FALSE]
NumberNaN == [t |-> "number", n |-> 0, s |-> "NaN", b |-> FALSE]
Undefined == [t |-> "undefined", n |-> 0, s |-> "", b |-> FALSE]

\* The function Object, which every plain object inherits as its property
\* "constructor"; s is the string its toString() gives.
ObjectFunction ==
  [t |-> "function", n |-> 0, s |-> "function Object() { [native code] }",
   b |-> FALSE]

\* The properties a plain object inherits from Object.prototype, among the
\* keys of the model, with their values.
InheritedKeys == {"constructor"}
Inherited(key) == ObjectFunction

\* An array of strings.
Array(items) == [t |-> "array", items |-> items]

\* ToBoolean, as the || operator applies it.
Truthy(v) ==
  CASE v.t \in {"undefined", "null"} -> FALSE
    [] v.t = "boolean" -> v.b
    [] v.t = "number"  -> v.n /= 0 /\ v /= NumberNaN
    [] v.t = "string"  -> v.s /= ""
    [] OTHER           -> TRUE

\* ToPrimitive: a function converts to its source string.
ToPrimitive(v) == IF v.t = "function" THEN Str(v.s) ELSE v

\* A JavaScript Number that is an integer or NaN (the result of ToNumber).
NaN     == [nan |-> TRUE,  n |-> 0]
Fin(n)  == [nan |-> FALSE, n |-> n]

\* StringToNumber on the strings of the model: a numeric literal converts to
\* its value, the empty string to 0, anything else to NaN.
StrToNumber(x) ==
  CASE x = ""    -> Fin(0)
    [] x = "1"   -> Fin(1)
    [] x = "5"   -> Fin(5)
    [] x = "150" -> Fin(150)
    [] OTHER     -> NaN

\* ToNumber
ToNumber(v) ==
  CASE v.t = "number"  -> IF v = NumberNaN THEN NaN ELSE Fin(v.n)
    [] v.t = "boolean" -> Fin(IF v.b THEN 1 ELSE 0)
    [] v.t = "null"    -> Fin(0)
    [] v.t = "undefined" -> NaN
    [] v.t = "string"  -> StrToNumber(v.s)
    [] v.t = "function" -> StrToNumber(ToPrimitive(v).s)

\* The strings of the model in code-unit (lexicographic) order.
StrOrder == <<"", "1", "150", "5", "function Object() { [native code] }",
              "true", "wifi">>
StrRank(x) == CHOOSE k \in 1..Len(StrOrder) : StrOrder[k] = x

\* x === y
StrictEquals(x, y) == x = y /\ x /= NumberNaN

\* x == y (abstract equality; an object operand is compared by identity with
\* an object and as its primitive with a primitive)
LooseEquals(x, y) ==
  IF x.t = y.t THEN StrictEquals(x, y)
  ELSE IF x.t \in {"null", "undefined"} \/ y.t \in {"null", "undefined"}
       THEN x.t \in {"null", "undefined"} /\ y.t \in {"null", "undefined"}
  ELSE LET p == ToPrimitive(x)
           q == ToPrimitive(y)
           a == ToNumber(p)
           c == ToNumber(q)
       IN  IF p.t = "string" /\ q.t = "string" THEN p.s = q.s
           ELSE ~a.nan /\ ~c.nan /\ a.n = c.n

\* x < y (abstract relational comparison; FALSE when it is undefined)
LessThan(x, y) ==
  LET p == ToPrimitive(x)
      q == ToPrimitive(y)
      a == ToNumber(p)
      c == ToNumber(q)
  IN  IF p.t = "string" /\ q.t = "string" THEN StrRank(p.s) < StrRank(q.s)
      ELSE ~a.nan /\ ~c.nan /\ a.n < c.n

\* x <= y is "not (y < x) and the comparison is defined"
LessEq(x, y) ==
  LET p == ToPrimitive(x)
      q == ToPrimitive(y)
      a == ToNumber(p)
      c == ToNumber(q)
  IN  IF p.t = "string" /\ q.t = "string" THEN StrRank(p.s) <= StrRank(q.s)
      ELSE ~a.nan /\ ~c.nan /\ a.n <= c.n

(***************************************************************************)
(* IEEE-754 double arithmetic, as far as calculateResult needs it:         *)
(*   Math.round((h.score / totalScore) * 100)                              *)
(* for integers h.score and totalScore /= 0.  A double's magnitude is      *)
(* [hi, lo, exp]: its 53-bit significand is hi * 2^26 + lo, with           *)
(* 2^26 <= hi < 2^27 and 0 <= lo < 2^26, and its value is                  *)
(* significand * 2^(exp - 52).  The significand is handled in 13-bit       *)
(* digits so that no intermediate value leaves 32-bit integers.            *)
(***************************************************************************)
Digit == 2^13
Half  == 2^26

Abs(n) == IF n < 0 THEN -n ELSE n

RECURSIVE Scale(_, _)
\* The least k with a * 2^k >= b (a, b > 0).
Scale(a, b) == IF a >= b THEN 0 ELSE 1 + Scale(2 * a, b)

\* Round to nearest, ties to even: the truncated significand [hi, lo] with
\* exponent exp, the first dropped bit `guard`, and whether any later
\* dropped bit is set, `sticky`.
RoundNearestEven(hi, lo, exp, guard, sticky) ==
  LET up == guard = 1 /\ (sticky \/ (lo % 2) = 1)
  IN  IF ~up THEN [hi |-> hi, lo |-> lo, exp |-> exp]
      ELSE IF lo + 1 < Half THEN [hi |-> hi, lo |-> lo + 1, exp |-> exp]
      ELSE IF hi + 1 < 2 * Half THEN [hi |-> hi + 1, lo |-> 0, exp |-> exp]
      ELSE [hi |-> Half, lo |-> 0, exp |-> exp + 1]

\* |s| / |t| as a double, for s /= 0, t /= 0.
DoubleDiv(s, t) ==
  LET a  == Abs(s)
      c  == Abs(t)
      \* normalise to c1 <= a1 < 2 * c1, so that the quotient is in [1, 2)
      ka == Scale(a, c)
      a1 == a * (2^ka)
      kc == IF a1 >= 2 * c THEN Scale(c, a1 \div 2 + 1) ELSE 0
      c1 == c * (2^kc)
      \* long division: the leading 1, then four 13-bit digits
      r0 == a1 - c1
      d1 == (r0 * Digit) \div c1
      r1 == (r0 * Digit) % c1
      d2 == (r1 * Digit) \div c1
      r2 == (r1 * Digit) % c1
      d3 == (r2 * Digit) \div c1
      r3 == (r2 * Digit) % c1
      d4 == (r3 * Digit) \div c1
      r4 == (r3 * Digit) % c1
      guard  == IF 2 * r4 >= c1 THEN 1 ELSE 0
      sticky == (2 * r4 - guard * c1) /= 0
  IN  RoundNearestEven(Half + d1 * Digit + d2, d3 * Digit + d4, kc - ka,
                       guard, sticky)

\* x * m as a double, for a double magnitude x and an integer 64 <= m < 128.
DoubleMulSmall(x, m) ==
  LET d1 == (x.hi % Half) \div Digit
      d2 == x.hi % Digit
      d3 == x.lo \div Digit
      d4 == x.lo % Digit
      \* the exact product, digit by digit from the right
      v4 == d4 * m
      v3 == d3 * m + (v4 \div Digit)
      v2 == d2 * m + (v3 \div Digit)
      v1 == d1 * m + (v2 \div Digit)
      top == m + (v1 \div Digit)                 \* 64 <= top < 256
      \* bring it back to 53 bits: drop the low 6 or 7 bits
      e   == IF top >= 128 THEN 7 ELSE 6
      sh  == 2^e
      x1  == (top % sh) * Digit + (v1 % Digit)
      x2  == (x1 % sh) * Digit + (v2 % Digit)
      x3  == (x2 % sh) * Digit + (v3 % Digit)
      x4  == (x3 % sh) * Digit + (v4 % Digit)
      dropped == x4 % sh
      guard   == dropped \div (sh \div 2)
      sticky  == (dropped % (sh \div 2)) /= 0
  IN  RoundNearestEven(Half + (x1 \div sh) * Digit + (x2 \div sh),
                       (x3 \div sh) * Digit + (x4 \div sh), x.exp + e,
                       guard, sticky)

\* Math.round(x) for a double of sign sgn and magnitude x < 2^26: the
\* nearest integer, a tie going towards +Infinity.
MathRound(sgn, x) ==
  LET f    == 52 - x.exp                     \* bits after the binary point
      k    == f - 26                         \* those of them that are in hi
      int  == IF f > 53 THEN 0 ELSE x.hi \div (2^k)
      half == IF f > 53 THEN 0 ELSE (x.hi \div (2^(k - 1))) % 2
      rest == IF f > 53 THEN TRUE
              ELSE (x.hi % (2^(k - 1))) /= 0 \/ x.lo /= 0
  IN  IF sgn >= 0 THEN int + half
      ELSE IF half = 1 /\ rest THEN -(int + 1) ELSE -int

\* Math.round((score / totalScore) * 100), totalScore /= 0
RoundedPercent(score, totalScore) ==
  IF score = 0 THEN 0
  ELSE LET sgn == IF (score < 0) = (totalScore < 0) THEN 1 ELSE -1
       IN  MathRound(sgn, DoubleMulSmall(DoubleDiv(score, totalScore), 100))

(***************************************************************************)
(* Rule conditions (DiagnosticEngine.evaluateOperators, evaluateConditions)*)
(*                                                                         *)
(* A trigger (rule.if) is the sequence of its entries [key, cond] in key   *)
(* order.  A condition is a scalar, [kind |-> "scalar", val |-> v], or an  *)
(* operator set, [kind |-> "ops", ops |-> <<[op, threshold], ...>>].       *)
(* The condition null is Scalar(Null); an array condition is the operator  *)
(* set of its indices, Object.entries giving them as the operators.        *)
(* A signals map is a function from the keys that are present to values.   *)
(* Both operators give [ok, warns, thrown]: the boolean the code returns,  *)
(* the operators console.warn was called with, in order, and whether the   *)
(* evaluation ended with an exception in place of a return.                *)
(***************************************************************************)
Scalar(v)  == [kind |-> "scalar", val |-> v,    ops |-> <<>>]
Ops(o)     == [kind |-> "ops",    val |-> Null, ops |-> o]
Op(o, th)  == [op |-> o, threshold |-> th]
Cond(k, c) == [key |-> k, cond |-> c]

\* What an evaluation gives: whether the conditions are met, the operators
\* warned about, and whether it ended with an exception.
Met       == [ok |-> TRUE,  warns |-> <<>>, thrown |-> FALSE]
NotMet    == [ok |-> FALSE, warns |-> <<>>, thrown |-> FALSE]
Warned(o) == [ok |-> FALSE, warns |-> <<o>>, thrown |-> FALSE]
TypeError == [ok |-> FALSE, warns |-> <<>>, thrown |-> TRUE]

\* One case of the switch: TRUE when the operator lets the loop go on.
OperatorHolds(operator, value, threshold) ==
  CASE operator = ">"  -> LessThan(threshold, value)
    [] operator = ">=" -> LessEq(threshold, value)
    [] operator = "<"  -> LessThan(value, threshold)
    [] operator = "<=" -> LessEq(value, threshold)
    [] operator = "==" -> LooseEquals(value, threshold)
    [] operator = "!=" -> ~LooseEquals(value, threshold)
    [] OTHER           -> FALSE

KnownOperators == {">", ">=", "<", "<=", "==", "!="}

RECURSIVE EvalOperatorsFrom(_, _, _)
EvalOperatorsFrom(value, operators, k) ==
  IF k > Len(operators) THEN Met
  ELSE LET o == operators[k]
       IN  IF o.op \notin KnownOperators
           THEN Warned(o.op)
           ELSE IF ~OperatorHolds(o.op, value, o.threshold)
                THEN NotMet
                ELSE EvalOperatorsFrom(value, operators, k + 1)

IsKnownOperator(o) == o.op \in KnownOperators

\* typeof condition, for the conditions a rules file can hold: a string, a
\* boolean, a number, an operator set, or null (whose typeof is "object").
TypeOf(condition) ==
  IF condition.kind = "ops" \/ condition.val = Null THEN "object"
  ELSE condition.val.t

\* The characters of the strings of the model.
Chars(x) ==
  CASE x = ""     -> <<>>
    [] x = "1"    -> <<"1">>
    [] x = "5"    -> <<"5">>
    [] x = "150"  -> <<"1", "5", "0">>
    [] x = "true" -> <<"t", "r", "u", "e">>
    [] x = "wifi" -> <<"w", "i", "f", "i">>

\* Object.entries(operators): the entries of an operator set; a TypeError
\* for null and undefined; no entry for a number or a boolean; for a string
\* one entry for each character, its index being the key (no string of the
\* model has more than four); for the function
\* Object the properties score and eliminated that an analysis has put on
\* it, in the order of their creation (score comes first in both stages).
ObjectEntries(operators) ==
  IF operators.kind = "ops"
  THEN [thrown |-> FALSE, entries |-> operators.ops]
  ELSE IF operators.val.t \in {"null", "undefined"}
  THEN [thrown |-> TRUE, entries |-> <<>>]
  ELSE IF operators.val.t = "string"
  THEN [thrown |-> FALSE,
        entries |-> [k \in 1..Len(Chars(operators.val.s)) |->
                       Op(<<"0", "1", "2", "3">>[k],
                          Str(Chars(operators.val.s)[k]))]]
  ELSE IF operators.val.t = "function"
  THEN [thrown |-> FALSE,
        entries |-> (IF objectFn.score = Undefined THEN <<>>
                     ELSE <<Op("score", objectFn.score)>>)
                    \o (IF objectFn.eliminated = Undefined THEN <<>>
                        ELSE <<Op("eliminated", objectFn.eliminated)>>)]
  ELSE [thrown |-> FALSE, entries |-> <<>>]

\* (mutant of evaluateOperators) an unrecognized operator is passed over
evaluateKnownOperators(value, operators) ==
  IF ObjectEntries(operators).thrown THEN TypeError
  ELSE EvalOperatorsFrom(value, SelectSeq(ObjectEntries(operators).entries,
                                          IsKnownOperator), 1)

\* evaluateOperators(value, operators): Object.entries(operators) throws a
\* TypeError or gives the entries, which are gone through in turn.
evaluateOperators(value, operators) ==
  IF ObjectEntries(operators).thrown THEN TypeError
  ELSE EvalOperatorsFrom(value, ObjectEntries(operators).entries, 1)

\* (mutant of ScalarMatches) signalValue != condition in the place of !==
ScalarMatchesLoosely(signalValue, condition) == LooseEquals(signalValue, condition)

\* The comparison of a scalar condition with the signal: signalValue !== condition
ScalarMatches(signalValue, condition) == StrictEquals(signalValue, condition)

\* (mutant of GetSignal) the value of some key of the map, whatever the key
GetSignalOfAnyKey(sig, key) ==
  IF DOMAIN sig = {} THEN Undefined
  ELSE sig[CHOOSE k \in DOMAIN sig : TRUE]

\* signals[key]: the own property, else the inherited one, else undefined.
GetSignal(sig, key) ==
  IF key \in DOMAIN sig THEN sig[key]
  ELSE IF key \in InheritedKeys THEN Inherited(key)
  ELSE Undefined

RECURSIVE EvalConditionsFrom(_, _, _)
EvalConditionsFrom(conditions, sig, k) ==
  IF k > Len(conditions) THEN Met
  ELSE LET key         == conditions[k].key
           condition   == conditions[k].cond
           signalValue == GetSignal(sig, key)
       IN  IF signalValue = Undefined \/ signalValue = Null
           THEN NotMet
           ELSE IF TypeOf(condition) \in {"string", "boolean", "number"}
           THEN IF ~ScalarMatches(signalValue, condition.val)
                THEN NotMet
                ELSE EvalConditionsFrom(conditions, sig, k + 1)
           ELSE IF TypeOf(condition) = "object"
           THEN LET r == evaluateOperators(signalValue, condition)
                IN  IF ~r.ok THEN r
                    ELSE EvalConditionsFrom(conditions, sig, k + 1)
           ELSE EvalConditionsFrom(conditions, sig, k + 1)

evaluateConditions(conditions, sig) == EvalConditionsFrom(conditions, sig, 1)

(***************************************************************************)
(* The working state of one engine: this.hypotheses is the sequence of its *)
(* entries [name, score, eliminated] in key order.                         *)
(***************************************************************************)
\* (mutant of DeepCopy) every score starts at 0 instead of its initial value
ZeroedCopy(hyps) ==
  [k \in 1..Len(hyps) |->
     [name |-> hyps[k].name, score |-> 0, eliminated |-> FALSE]]

\* JSON.parse(JSON.stringify(rules.hypotheses)): a copy, entry by entry; an
\* entry of the RuleSet carries no eliminated flag, which reads as false.
DeepCopy(hyps) ==
  [k \in 1..Len(hyps) |->
     [name |-> hyps[k].name, score |-> hyps[k].score, eliminated |-> FALSE]]

\* The snapshot has an own entry for the name.
OwnHypothesis(hyps, name) == \E k \in 1..Len(hyps) : hyps[k].name = name

\* this.hypotheses[name] !== undefined: an own entry, or a property that the
\* snapshot inherits from Object.prototype.
HasHypothesis(hyps, name) ==
  OwnHypothesis(hyps, name) \/ name \in InheritedKeys

HypIndex(hyps, name) == CHOOSE k \in 1..Len(hyps) : hyps[k].name = name

\* (mutant of Push) array.unshift(x)
Unshift(array, x) == <<x>> \o array

\* array.push(x)
Push(array, x) == Append(array, x)

\* (mutant of EliminateOne) the `includes` test left out
EliminateOneAlwaysPush(st, name) ==
  IF ~HasHypothesis(st.hypotheses, name) THEN st
  ELSE [hypotheses |->
          IF OwnHypothesis(st.hypotheses, name)
          THEN LET k == HypIndex(st.hypotheses, name)
               IN  [st.hypotheses EXCEPT ![k].score = 0, ![k].eliminated = TRUE]
          ELSE st.hypotheses,
        eliminatedCauses |-> Push(st.eliminatedCauses, name)]

\* One pass of the inner loop of applyEliminationRules, for one name.  When
\* the name is not an own entry but an inherited property, the two
\* assignments go to the inherited object (ObjectAfterElimination) and the
\* snapshot's entries stay as they are.
EliminateOne(st, name) ==
  IF ~HasHypothesis(st.hypotheses, name) THEN st
  ELSE [hypotheses |->
          IF OwnHypothesis(st.hypotheses, name)
          THEN LET k == HypIndex(st.hypotheses, name)
               IN  [st.hypotheses EXCEPT ![k].score = 0, ![k].eliminated = TRUE]
          ELSE st.hypotheses,
        eliminatedCauses |->
          IF \E j \in 1..Len(st.eliminatedCauses) : st.eliminatedCauses[j] = name
          THEN st.eliminatedCauses
          ELSE Push(st.eliminatedCauses, name)]

RECURSIVE EliminateFrom(_, _, _)
EliminateFrom(st, names, k) ==
  IF k > Len(names) THEN st
  ELSE EliminateFrom(EliminateOne(st, names[k]), names, k + 1)

\* The name is looked up in the snapshot and found on Object.prototype.
InheritedHypothesis(hyps, name) ==
  HasHypothesis(hyps, name) /\ ~OwnHypothesis(hyps, name)

\* The properties score and eliminated of the function Object before any
\* analysis, and after `.score = 0; .eliminated = true` reached it.
ObjectUntouched  == [score |-> Undefined, eliminated |-> Undefined]
ObjectEliminated == [score |-> Num(0), eliminated |-> Bool(TRUE)]

\* What the inner loop of applyEliminationRules leaves on the function Object.
ObjectAfterElimination(obj, hyps, names) ==
  IF \E k \in 1..Len(names) : InheritedHypothesis(hyps, names[k])
  THEN ObjectEliminated ELSE obj

EliminationRecord(rule) ==
  [id |-> rule.id, type |-> "elimination", explanation |-> rule.explanation]

\* (mutant of ClampedAdd) a change that would take the score below 0 is
\* dropped instead of floored
DroppedAdd(score, scoreChange) ==
  IF score + scoreChange < 0 THEN score ELSE score + scoreChange

\* (mutant of ClampedAdd) the floor at 0 left out
UnclampedAdd(score, scoreChange) == score + scoreChange

\* The score after `this.hypotheses[h].score += scoreChange` and the floor.
ClampedAdd(score, scoreChange) ==
  IF score + scoreChange < 0 THEN 0 ELSE score + scoreChange

\* (mutant of ScoreOne) the `if (eliminated) continue` left out
ScoreOneNoSkip(hyps, entry) ==
  IF ~OwnHypothesis(hyps, entry.name) THEN hyps
  ELSE LET k == HypIndex(hyps, entry.name)
       IN  [hyps EXCEPT ![k].score = ClampedAdd(hyps[k].score, entry.delta)]

\* One pass of the inner loop of applyScoringRules, for one entry of
\* rule.then.  For an inherited name the addition goes to the inherited
\* object (ObjectAfterScoreOne) and the snapshot's entries stay as they are.
ScoreOne(hyps, entry) ==
  IF ~HasHypothesis(hyps, entry.name) \/ ~OwnHypothesis(hyps, entry.name) THEN hyps
  ELSE LET k == HypIndex(hyps, entry.name)
       IN  IF hyps[k].eliminated THEN hyps
           ELSE [hyps EXCEPT ![k].score = ClampedAdd(hyps[k].score, entry.delta)]

RECURSIVE ScoreFrom(_, _, _)
ScoreFrom(hyps, entries, k) ==
  IF k > Len(entries) THEN hyps
  ELSE ScoreFrom(ScoreOne(hyps, entries[k]), entries, k + 1)

\* value += scoreChange, then the floor at 0, on a property that may be
\* undefined or NaN: undefined + n and NaN + n are NaN, and NaN < 0 is false.
NumberAfterAdd(value, scoreChange) ==
  IF value.t = "number" /\ value /= NumberNaN
  THEN Num(ClampedAdd(value.n, scoreChange))
  ELSE NumberNaN

ObjectAfterScoreOne(obj, hyps, entry) ==
  IF ~InheritedHypothesis(hyps, entry.name) THEN obj
  ELSE IF Truthy(obj.eliminated) THEN obj
  ELSE [obj EXCEPT !.score = NumberAfterAdd(obj.score, entry.delta)]

\* What the inner loop of applyScoringRules leaves on the function Object.
RECURSIVE ObjectAfterScoring(_, _, _, _)
ObjectAfterScoring(obj, hyps, entries, k) ==
  IF k > Len(entries) THEN obj
  ELSE ObjectAfterScoring(ObjectAfterScoreOne(obj, hyps, entries[k]),
                          hyps, entries, k + 1)

\* (mutant of ScoringRecord) the record leaves the delta map out
ScoringRecordWithoutScores(rule) ==
  [id |-> rule.id, type |-> "scoring", explanation |-> rule.explanation,
   scores |-> <<>>]

ScoringRecord(rule) ==
  [id |-> rule.id, type |-> "scoring", explanation |-> rule.explanation,
   scores |-> rule.then]

(***************************************************************************)
(* DiagnosticEngine.calculateResult                                        *)
(***************************************************************************)
HighThreshold   == 65
MediumThreshold == 40

\* (mutant of UnknownNextSteps) a third item, as in the fallback list
UnknownNextStepsOfThree ==
  <<"Collect more diagnostic data", "Run additional tests",
    "Contact support if issue persists">>

UnknownNextSteps == <<"Collect more diagnostic data", "Run additional tests">>

FallbackNextSteps ==
  <<"Review system logs", "Run additional diagnostics",
    "Contact support if issue persists">>

NotEliminated(h) == ~h.eliminated

\* Object.entries(this.hypotheses).filter(not eliminated).map({name, score})
ActiveHypotheses(hyps) ==
  LET kept == SelectSeq(hyps, NotEliminated)
  IN  [k \in 1..Len(kept) |-> [name |-> kept[k].name, score |-> kept[k].score]]

RECURSIVE SumScores(_, _)
SumScores(active, k) ==
  IF k > Len(active) THEN 0 ELSE active[k].score + SumScores(active, k + 1)

\* activeHypotheses.reduce((sum, h) => sum + h.score, 0)
TotalScore(active) == SumScores(active, 1)

\* (mutant of ConfidencePercent) Math.ceil in the place of Math.round
PercentRoundedUp(score, totalScore) ==
  IF totalScore > 0 /\ score >= 0
  THEN (100 * score + totalScore - 1) \div totalScore
  ELSE RoundedPercent(score, totalScore)

\* Math.round((h.score / totalScore) * 100)
ConfidencePercent(score, totalScore) == RoundedPercent(score, totalScore)

Normalize(active, totalScore) ==
  [k \in 1..Len(active) |->
     [name |-> active[k].name, score |-> active[k].score,
      confidence_percent |-> ConfidencePercent(active[k].score, totalScore)]]

\* (mutant of ComesAfter) equal percentages change places
ComesAfterOrEqual(a, b) == b.confidence_percent - a.confidence_percent >= 0

\* The comparator of the sort: (a, b) => b.confidence_percent - a.confidence_percent
\* is positive, that is a is to come after b.
ComesAfter(a, b) == b.confidence_percent - a.confidence_percent > 0

\* x put into the sorted sequence `sorted`: behind every element it does not
\* have to precede (Array.prototype.sort is stable).
RECURSIVE InsertSorted(_, _, _)
InsertSorted(sorted, x, k) ==
  IF k > Len(sorted) THEN Append(sorted, x)
  ELSE IF ComesAfter(sorted[k], x)
       THEN SubSeq(sorted, 1, k - 1) \o <<x>> \o SubSeq(sorted, k, Len(sorted))
       ELSE InsertSorted(sorted, x, k + 1)

RECURSIVE SortFrom(_, _, _)
SortFrom(sorted, xs, k) ==
  IF k > Len(xs) THEN sorted
  ELSE SortFrom(InsertSorted(sorted, xs[k], 1), xs, k + 1)

\* (mutant of SortByConfidence) the list is left in declaration order
LeftUnsorted(xs) == xs

\* normalizedHypotheses.sort(...)
SortByConfidence(xs) == SortFrom(<<>>, xs, 1)

\* (mutant of ConfidenceLevel) the thresholds themselves are left out
ConfidenceLevelStrict(percent) ==
  IF percent > HighThreshold THEN "High"
  ELSE IF percent > MediumThreshold THEN "Medium"
  ELSE "Low"

ConfidenceLevel(percent) ==
  IF percent >= HighThreshold THEN "High"
  ELSE IF percent >= MediumThreshold THEN "Medium"
  ELSE "Low"

\* (mutant of IsScoring) the filter on the record type lets every record pass
IsAnyRecord(r) == TRUE

IsScoring(r) == r.type = "scoring"

\* this.appliedRules.filter(r => r.type === 'scoring').map(r => r.explanation)
Evidence(applied) ==
  LET kept == SelectSeq(applied, IsScoring)
  IN  [k \in 1..Len(kept) |-> kept[k].explanation]

\* this.rules.next_steps[name] || [fallback]: the own entry of the table,
\* else the property the table inherits, else undefined, which gives way to
\* the fallback list.
NextStepsFor(nextSteps, name) ==
  LET entry == IF name \in DOMAIN nextSteps THEN Array(nextSteps[name])
               ELSE IF name \in InheritedKeys THEN Inherited(name)
               ELSE Undefined
  IN  IF Truthy(entry) THEN entry ELSE Array(FallbackNextSteps)

\* (mutant of UnknownResult) the eliminated list is not handed on
UnknownResultNoEliminated(hyps, eliminated, applied) ==
  [primary_cause      |-> "unknown",
   confidence_percent |-> 0,
   confidence_level   |-> "Low",
   evidence           |-> Evidence(applied),
   eliminated_causes  |-> <<>>,
   next_steps         |-> Array(UnknownNextSteps),
   all_scores         |-> hyps,
   applied_rules      |-> applied]

\* The result returned when totalScore === 0.
UnknownResult(hyps, eliminated, applied) ==
  [primary_cause      |-> "unknown",
   confidence_percent |-> 0,
   confidence_level   |-> "Low",
   evidence           |-> Evidence(applied),
   eliminated_causes  |-> eliminated,
   next_steps         |-> Array(UnknownNextSteps),
   all_scores         |-> hyps,
   applied_rules      |-> applied]

\* The result built from the sorted, normalized hypotheses.
RankedResult(normalizedHypotheses, hyps, eliminated, applied, ruleSet) ==
  LET primaryCause == normalizedHypotheses[1]
  IN  [primary_cause      |-> primaryCause.name,
       confidence_percent |-> primaryCause.confidence_percent,
       confidence_level   |-> ConfidenceLevel(primaryCause.confidence_percent),
       raw_score          |-> primaryCause.score,
       evidence           |-> Evidence(applied),
       eliminated_causes  |-> eliminated,
       next_steps         |-> NextStepsFor(ruleSet.next_steps, primaryCause.name),
       all_hypotheses     |-> normalizedHypotheses,
       all_scores         |-> hyps,
       applied_rules      |-> applied]

calculateResult(hyps, eliminated, applied, ruleSet) ==
  LET activeHypotheses == ActiveHypotheses(hyps)
      totalScore       == TotalScore(activeHypotheses)
  IN  IF totalScore = 0
      THEN UnknownResult(hyps, eliminated, applied)
      ELSE RankedResult(SortByConfidence(Normalize(activeHypotheses, totalScore)),
                        hyps, eliminated, applied, ruleSet)

(***************************************************************************)
(* The inputs: RuleSets and signals maps                                   *)
(***************************************************************************)
MaxEliminationRules == 2
MaxScoringRules     == 2

Hyp(n, sc) == [name |-> n, score |-> sc]
Delta(n, d) == [name |-> n, delta |-> d]

\* rules.hypotheses, in key order.  The third one breaks the configuration
\* contract (an initial score is negative); the last one has a hypothesis by
\* the name of a property that every object inherits.
HypothesisTables ==
  { <<Hyp("dns", 10), Hyp("net", 10), Hyp("disk", 10)>>,
    <<Hyp("dns", 0), Hyp("net", 0)>>,
    <<Hyp("dns", -10), Hyp("net", 10)>>,
    <<Hyp("constructor", 10), Hyp("net", 10)>> }

\* The elimination rules a RuleSet takes its elimination_rules from.
\* "ghost" is a hypothesis name that no table declares; "constructor" is
\* declared by one table only.
EliminationPool ==
  << [id |-> "E1", explanation |-> "latency is low",
      if |-> <<Cond("network_latency_ms", Ops(<<Op("<", Num(100))>>))>>,
      eliminate |-> <<"net">>],
     [id |-> "E2", explanation |-> "vpn is in use",
      if |-> <<Cond("vpn_in_use", Scalar(Bool(TRUE)))>>,
      eliminate |-> <<"net", "ghost", "dns", "net">>],
     [id |-> "E3", explanation |-> "always",
      if |-> <<>>,
      eliminate |-> <<"disk", "constructor">>] >>

\* The scoring rules a RuleSet takes its rules from.
ScoringPool ==
  << [id |-> "S1", explanation |-> "some latency",
      if |-> <<Cond("network_latency_ms", Ops(<<Op(">=", Num(50))>>))>>,
      then |-> <<Delta("dns", 5), Delta("disk", -5), Delta("constructor", 5)>>],
     [id |-> "S2", explanation |-> "latency is high",
      if |-> <<Cond("network_latency_ms", Ops(<<Op(">", Num(100)), Op("<=", Num(200))>>))>>,
      then |-> <<Delta("dns", 13), Delta("net", 7)>>],
     [id |-> "S3", explanation |-> "vpn is in use",
      if |-> <<Cond("vpn_in_use", Ops(<<Op("==", Num(1))>>))>>,
      then |-> <<Delta("dns", 40), Delta("ghost", 5), Delta("net", 41)>>],
     [id |-> "S4", explanation |-> "latency is high",
      if |-> <<Cond("network_latency_ms", Scalar(Num(150)))>>,
      then |-> <<Delta("dns", -20)>>],
     [id |-> "S5", explanation |-> "odd operator",
      if |-> <<Cond("vpn_in_use", Scalar(Bool(TRUE))),
               Cond("network_latency_ms", Ops(<<Op(">", Num(100)), Op(">>", Num(5))>>))>>,
      then |-> <<Delta("net", 5)>>],
     [id |-> "S6", explanation |-> "latency is not 50, constructor is not 0",
      if |-> <<Cond("network_latency_ms", Ops(<<Op("!=", Num(50))>>)),
               Cond("constructor", Ops(<<Op("!=", Num(0))>>))>>,
      then |-> <<Delta("dns", 5)>>] >>

\* The elements of `list` at the positions in `at`, in the order of `list`.
RECURSIVE Pick(_, _, _)
Pick(list, at, k) ==
  IF k > Len(list) THEN <<>>
  ELSE (IF k \in at THEN <<list[k]>> ELSE <<>>) \o Pick(list, at, k + 1)

\* The lists of at most n rules taken from `list`, in its order.
SubLists(list, n) ==
  {Pick(list, at, 1) : at \in {x \in SUBSET (1..Len(list)) : Cardinality(x) <= n}}

NextStepsTable == [n \in {"dns"} |-> <<"Flush the DNS cache">>]

RuleSets ==
  [hypotheses        : HypothesisTables,
   elimination_rules : SubLists(EliminationPool, MaxEliminationRules),
   rules             : SubLists(ScoringPool, MaxScoringRules),
   next_steps        : {NextStepsTable}]

\* Rules whose trigger holds a null condition, which JSON can express and
\* no well-formed RuleSet has.
NullEliminationRule ==
  [id |-> "E4", explanation |-> "condition is null",
   if |-> <<Cond("network_latency_ms", Scalar(Null))>>,
   eliminate |-> <<"net">>]

NullScoringRule ==
  [id |-> "S7", explanation |-> "condition is null",
   if |-> <<Cond("vpn_in_use", Scalar(Null))>>,
   then |-> <<Delta("dns", 5)>>]

\* The RuleSets with one such rule: as the only elimination rule, or as the
\* only scoring rule.
NullConditionRuleSets ==
  {[ruleSet EXCEPT !.elimination_rules = <<NullEliminationRule>>] :
     ruleSet \in {r \in RuleSets : r.elimination_rules = <<>> /\ Len(r.rules) <= 1}}
  \cup
  {[ruleSet EXCEPT !.rules = <<NullScoringRule>>] :
     ruleSet \in {r \in RuleSets : r.rules = <<>>}}

WellFormed(ruleSet) == ruleSet \in RuleSets

\* Every signals map over the keys "network_latency_ms" and "vpn_in_use".
LatValues == {Num(50), Num(150), Str("150"), Null}
VpnValues == {Bool(TRUE), Num(1)}

SignalMaps ==
  {<<>>}
  \cup {[k \in {"network_latency_ms"} |-> l] : l \in LatValues}
  \cup {[k \in {"vpn_in_use"} |-> v] : v \in VpnValues}
  \cup {[k \in {"network_latency_ms", "vpn_in_use"} |->
            IF k = "network_latency_ms" THEN l ELSE v] :
          <<l, v>> \in LatValues \X VpnValues}

(***************************************************************************)
(* The engine as a state machine.  pc is the position of the analysis:     *)
(*   Idle         constructed, analyze() not called yet                    *)
(*   Eliminating  in the loop of applyEliminationRules, at rule idx        *)
(*   Scoring      in the loop of applyScoringRules, at rule idx            *)
(*   Calculated   analyze() has returned `result`                          *)
(*   Thrown       analyze() has ended with an exception                    *)
(***************************************************************************)
vars == <<rules, hypotheses, eliminatedCauses, appliedRules, signals, pc, idx,
          result, stale, evaluated, warnings, objectFn,
          calls, missing, engineClass, diagnosticRules,
          inv, heap, engines, returned>>

\* The variables of the engine at hand, and those of the results page.
engine == <<rules, hypotheses, eliminatedCauses, appliedRules, signals, pc, idx,
            result, stale, evaluated, warnings, inv>>
page   == <<calls, missing, engineClass, diagnosticRules>>
objects == <<heap, engines, returned>>

NoAnalysis == [bottleneck |-> "(none)"]
NoResult   == [primary_cause |-> "(none)"]

\* An invocation of analyze() that has not begun: its position, its
\* argument, what it returned, and whether a step of another invocation
\* fell between its steps.
Invocations == {1, 2}
IdleInvocation ==
  [pc |-> "Idle", idx |-> 0, signals |-> <<>>, result |-> NoResult,
   overlapped |-> FALSE, inner |-> FALSE, shared |-> {}]

\* A call of analyzeBottleneckWithEngine that was not made: its position,
\* its argument, what loadDiagnosticRules returned to it, and what it
\* returned.  The function is async, so a call can be made while another
\* one waits.
Calls == {1, 2}
NotCalled ==
  [pc |-> "NotCalled", params |-> <<>>, loaded |-> "null", analysis |-> NoAnalysis]

\* No call of analyzeBottleneckWithEngine was made.
PageIdle ==
  /\ calls = [c \in Calls |-> NotCalled]
  /\ diagnosticRules = "null"

\* An engine that has not been built: this.rules and the three fields refer
\* to no object.
Engines == {1, 2}
NotBuilt ==
  [built |-> FALSE, rules |-> 0, hypotheses |-> 0, eliminatedCauses |-> 0,
   appliedRules |-> 0]

\* No object is followed by address.
NoObjects ==
  /\ heap = <<>>
  /\ engines = [e \in Engines |-> NotBuilt]
  /\ returned = <<>>


\* new DiagnosticEngine(rules)
Init ==
  /\ rules \in RuleSets \cup NullConditionRuleSets
  /\ hypotheses = DeepCopy(rules.hypotheses)
  /\ eliminatedCauses = <<>>
  /\ appliedRules = <<>>
  /\ signals = <<>>
  /\ pc = "Idle"
  /\ idx = 0
  /\ result = NoResult
  /\ stale = FALSE
  /\ evaluated = <<>>
  /\ warnings = <<>>
  /\ objectFn = ObjectUntouched
  /\ missing = "none"
  /\ engineClass = TRUE
  /\ PageIdle
  /\ inv = [i \in Invocations |-> IdleInvocation]
  /\ NoObjects

\* new DiagnosticEngine(rules) once more, over the same rules object, between
\* two analyses: the engine at hand from then on is the new one.
Construct ==
  /\ pc \in {"Idle", "Calculated", "Thrown"}
  /\ hypotheses' = DeepCopy(rules.hypotheses)
  /\ eliminatedCauses' = <<>>
  /\ appliedRules' = <<>>
  /\ signals' = <<>>
  /\ pc' = "Idle"
  /\ idx' = 0
  /\ result' = NoResult
  /\ stale' = FALSE
  /\ evaluated' = <<>>
  /\ warnings' = <<>>
  /\ UNCHANGED <<rules, objectFn>>
  /\ UNCHANGED <<page, inv, objects>>

\* (mutant of ResetHypotheses) the snapshot of the earlier call is kept
KeepHypotheses(ruleSet, old) == old

\* (mutant of ResetAppliedRules) the log of the earlier call is kept
KeepAppliedRules(old) == old

\* The fields analyze() resets before the stages run.
ResetHypotheses(ruleSet, old) == DeepCopy(ruleSet.hypotheses)
ResetEliminatedCauses(old)    == <<>>
ResetAppliedRules(old)        == <<>>

\* (mutant of NextIndex) the loop steps over a rule
SkipIndex(i) == i + 2

\* for (const rule of list): the position after the rule at i, and whether
\* the loop is over.
NextIndex(i)       == i + 1
LoopOver(i, list)  == i > Len(list)

\* analyze(signals), up to the call of applyEliminationRules
Analyze(sig) ==
  /\ pc \in {"Idle", "Calculated", "Thrown"}
  /\ hypotheses' = ResetHypotheses(rules, hypotheses)
  /\ eliminatedCauses' = ResetEliminatedCauses(eliminatedCauses)
  /\ appliedRules' = ResetAppliedRules(appliedRules)
  /\ signals' = sig
  /\ pc' = "Eliminating"
  /\ idx' = 1
  /\ result' = NoResult
  /\ stale' = (\/ hypotheses /= DeepCopy(rules.hypotheses)
               \/ eliminatedCauses /= <<>>
               \/ appliedRules /= <<>>)
  /\ evaluated' = <<>>
  /\ warnings' = <<>>
  /\ UNCHANGED <<rules, objectFn>>
  /\ UNCHANGED <<page, inv, objects>>

\* One iteration of the loop of applyEliminationRules.
EliminationStep ==
  /\ pc = "Eliminating"
  /\ ~LoopOver(idx, rules.elimination_rules)
  /\ LET rule == rules.elimination_rules[idx]
         m    == evaluateConditions(rule.if, signals)
         st   == EliminateFrom([hypotheses |-> hypotheses,
                                eliminatedCauses |-> eliminatedCauses],
                               rule.eliminate, 1)
     IN  /\ hypotheses' = IF m.ok THEN st.hypotheses ELSE hypotheses
         /\ eliminatedCauses' = IF m.ok THEN st.eliminatedCauses ELSE eliminatedCauses
         /\ appliedRules' = IF m.ok THEN Push(appliedRules, EliminationRecord(rule))
                            ELSE appliedRules
         /\ warnings' = warnings \o m.warns
         /\ objectFn' = IF m.ok
                         THEN ObjectAfterElimination(objectFn, hypotheses, rule.eliminate)
                         ELSE objectFn
         /\ pc' = IF m.thrown THEN "Thrown" ELSE pc
         /\ idx' = IF m.thrown THEN idx ELSE NextIndex(idx)
  /\ rules' = rules
  /\ evaluated' = Append(evaluated, <<"elimination", idx>>)
  /\ UNCHANGED <<signals, result, stale>>
  /\ UNCHANGED <<page, inv, objects>>

\* applyEliminationRules returns and applyScoringRules is entered.
StartScoring ==
  /\ pc = "Eliminating"
  /\ LoopOver(idx, rules.elimination_rules)
  /\ pc' = "Scoring"
  /\ idx' = 1
  /\ UNCHANGED <<rules, hypotheses, eliminatedCauses, appliedRules, signals,
                 result, stale, evaluated, warnings, objectFn>>
  /\ UNCHANGED <<page, inv, objects>>

\* One iteration of the loop of applyScoringRules.
ScoringStep ==
  /\ pc = "Scoring"
  /\ ~LoopOver(idx, rules.rules)
  /\ LET rule == rules.rules[idx]
         m    == evaluateConditions(rule.if, signals)
     IN  /\ hypotheses' = IF m.ok THEN ScoreFrom(hypotheses, rule.then, 1)
                          ELSE hypotheses
         /\ appliedRules' = IF m.ok THEN Push(appliedRules, ScoringRecord(rule))
                            ELSE appliedRules
         /\ warnings' = warnings \o m.warns
         /\ objectFn' = IF m.ok
                         THEN ObjectAfterScoring(objectFn, hypotheses, rule.then, 1)
                         ELSE objectFn
         /\ pc' = IF m.thrown THEN "Thrown" ELSE pc
         /\ idx' = IF m.thrown THEN idx ELSE NextIndex(idx)
  /\ rules' = rules
  /\ evaluated' = Append(evaluated, <<"scoring", idx>>)
  /\ UNCHANGED <<eliminatedCauses, signals, result, stale>>
  /\ UNCHANGED <<page, inv, objects>>

\* applyScoringRules returns; calculateResult; analyze() returns.
Calculate ==
  /\ pc = "Scoring"
  /\ LoopOver(idx, rules.rules)
  /\ result' = calculateResult(hypotheses, eliminatedCauses, appliedRules, rules)
  /\ pc' = "Calculated"
  /\ idx' = 0
  /\ UNCHANGED <<rules, hypotheses, eliminatedCauses, appliedRules, signals,
                 stale, evaluated, warnings, objectFn>>
  /\ UNCHANGED <<page, inv, objects>>

Next ==
  \/ Construct
  \/ \E sig \in SignalMaps : Analyze(sig)
  \/ EliminationStep
  \/ StartScoring
  \/ ScoringStep
  \/ Calculate

Spec == Init /\ [][Next]_vars

(***************************************************************************)
(* The same analysis as one function of (RuleSet, signals): what           *)
(* `new DiagnosticEngine(rules).analyze(signals)` returns.                 *)
(***************************************************************************)
RECURSIVE applyEliminationRules(_, _, _, _)
applyEliminationRules(st, ruleSet, sig, k) ==
  IF k > Len(ruleSet.elimination_rules) THEN st
  ELSE IF evaluateConditions(ruleSet.elimination_rules[k].if, sig).thrown
  THEN [st EXCEPT !.thrown = TRUE]
  ELSE LET rule == ruleSet.elimination_rules[k]
           e    == EliminateFrom([hypotheses |-> st.hypotheses,
                                  eliminatedCauses |-> st.eliminatedCauses],
                                 rule.eliminate, 1)
           next == IF evaluateConditions(rule.if, sig).ok
                   THEN [hypotheses       |-> e.hypotheses,
                         eliminatedCauses |-> e.eliminatedCauses,
                         appliedRules     |-> Push(st.appliedRules,
                                                   EliminationRecord(rule)),
                         thrown           |-> FALSE]
                   ELSE st
       IN  applyEliminationRules(next, ruleSet, sig, k + 1)

RECURSIVE applyScoringRules(_, _, _, _)
applyScoringRules(st, ruleSet, sig, k) ==
  IF k > Len(ruleSet.rules) THEN st
  ELSE IF evaluateConditions(ruleSet.rules[k].if, sig).thrown
  THEN [st EXCEPT !.thrown = TRUE]
  ELSE LET rule == ruleSet.rules[k]
           next == IF evaluateConditions(rule.if, sig).ok
                   THEN [st EXCEPT
                           !.hypotheses   = ScoreFrom(st.hypotheses, rule.then, 1),
                           !.appliedRules = Push(st.appliedRules, ScoringRecord(rule))]
                   ELSE st
       IN  applyScoringRules(next, ruleSet, sig, k + 1)

\* The fields of a new engine; thrown tells whether a stage has ended with
\* an exception.
Constructed(ruleSet) ==
  [hypotheses       |-> DeepCopy(ruleSet.hypotheses),
   eliminatedCauses |-> <<>>,
   appliedRules     |-> <<>>,
   thrown           |-> FALSE]

\* A stage ends with an exception: the evaluation of one of its rules does,
\* every rule before it being evaluated whether it matches or not.
EliminationThrows(ruleSet, sig) ==
  \E k \in 1..Len(ruleSet.elimination_rules) :
     evaluateConditions(ruleSet.elimination_rules[k].if, sig).thrown

ScoringThrows(ruleSet, sig) ==
  \E k \in 1..Len(ruleSet.rules) :
     evaluateConditions(ruleSet.rules[k].if, sig).thrown

AnalyzeThrows(ruleSet, sig) ==
  EliminationThrows(ruleSet, sig) \/ ScoringThrows(ruleSet, sig)

\* What analyze(sig) returns on a new engine; nothing when it throws.
FreshAnalyze(ruleSet, sig) ==
  IF AnalyzeThrows(ruleSet, sig) THEN NoResult
  ELSE LET st == applyScoringRules(
                   applyEliminationRules(Constructed(ruleSet), ruleSet, sig, 1),
                   ruleSet, sig, 1)
       IN  calculateResult(st.hypotheses, st.eliminatedCauses, st.appliedRules,
                           ruleSet)


(***************************************************************************)
(* src/diagnostic-results.js: the results page loads the rule set, runs    *)
(* the engine on the signals it extracts from the URL parameters and maps  *)
(* the result, or falls back to the legacy analysis of the parameters.     *)
(* Of an analysis the model keeps bottleneck, confidence and               *)
(* confidencePercent, and for a mapped one what it takes from the engine;  *)
(* the explanation and the legacy text lists, fixed by the branch, are     *)
(* left out.                                                               *)
(***************************************************************************)
MaxFileRules == 1

\* The URL parameters of the model; every other parameter is absent.
ParamKeys == {"dns_ms", "latency_ms", "vpn_issue", "throughput_mbps"}

\* params.get(key)
Get(p, key) == IF key \in DOMAIN p THEN Str(p[key]) ELSE Null

\* parseFloat on what params.get gives: null and a string without a numeric
\* prefix give NaN, a numeral its value.
ParseFloat(v) ==
  IF v = Null THEN NaN
  ELSE CASE v.s = "50"  -> Fin(50)
         [] v.s = "150" -> Fin(150)
         [] v.s = "600" -> Fin(600)
         [] OTHER       -> NaN

\* parseFloat(...) || 0
OrZero(x) == IF x.nan THEN 0 ELSE x.n

\* extractSignals(params): the keys that are always set, and those set when
\* the parameter parses as a number.
extractSignals(p) ==
  LET dnsMs          == ParseFloat(Get(p, "dns_ms"))
      latencyMs      == ParseFloat(Get(p, "latency_ms"))
      throughputMbps == ParseFloat(Get(p, "throughput_mbps"))
      vpn            == Get(p, "vpn_issue")
      keys == {"timing_pattern", "packet_loss_percent", "memory_pressure",
               "app_specific", "vpn_in_use", "recent_change"}
              \cup (IF dnsMs.nan THEN {} ELSE {"dns_latency_ms"})
              \cup (IF latencyMs.nan THEN {} ELSE {"network_latency_ms"})
              \cup (IF throughputMbps.nan THEN {} ELSE {"throughput_mbps"})
  IN  [k \in keys |->
         CASE k = "timing_pattern"      -> Str("")
           [] k = "packet_loss_percent" -> Num(0)
           [] k = "memory_pressure"     -> Bool(FALSE)
           [] k = "app_specific"        -> Bool(FALSE)
           [] k = "vpn_in_use"          -> Bool(vpn = Str("yes") \/ vpn = Str("true"))
           [] k = "recent_change"       -> Bool(FALSE)
           [] k = "dns_latency_ms"      -> Num(dnsMs.n)
           [] k = "network_latency_ms"  -> Num(latencyMs.n)
           [] k = "throughput_mbps"     -> Num(throughputMbps.n)]

\* The confidence label of the legacy analysis.
LegacyLabel(confidence) ==
  IF confidence >= 80 THEN "High"
  ELSE IF confidence >= 60 THEN "Medium"
  ELSE "Low"

LegacyAnalysis(bottleneckType, confidence) ==
  [bottleneck        |-> Str(bottleneckType),
   confidence        |-> LegacyLabel(confidence),
   confidencePercent |-> confidence]

\* analyzeBottleneckLegacy(params), for parameters over ParamKeys: the flags
\* high_latency, low_bandwidth, dns_issues are false and connection,
\* slowness_scope, timing, scope, diagnostic_path are null.
analyzeBottleneckLegacy(p) ==
  LET dnsMs          == OrZero(ParseFloat(Get(p, "dns_ms")))
      latencyMs      == OrZero(ParseFloat(Get(p, "latency_ms")))
      throughputMbps == OrZero(ParseFloat(Get(p, "throughput_mbps")))
      vpnIssue       == Get(p, "vpn_issue") = Str("true")
  IN  IF dnsMs > 200
      THEN LegacyAnalysis("DNS resolution delays", IF dnsMs > 500 THEN 85 ELSE 72)
      ELSE IF latencyMs > 200
      THEN IF vpnIssue THEN LegacyAnalysis("VPN connection overhead", 88)
           ELSE IF latencyMs > 500 THEN LegacyAnalysis("Network latency issues", 82)
           ELSE LegacyAnalysis("General network latency", 68)
      ELSE IF throughputMbps < 5
      THEN LegacyAnalysis("Application-specific bandwidth limits", 71)
      ELSE LegacyAnalysis("Insufficient diagnostic data", 45)

\* bottleneckNames[primary_cause] || primary_cause, for the causes of the
\* model: the table is a plain object, so an inherited key is found in it.
BottleneckOf(cause) ==
  CASE cause = "dns"          -> Str("DNS resolution delays")
    [] cause = "disk"         -> Str("Disk I/O bottleneck")
    [] cause = "unknown"      -> Str("Insufficient diagnostic data")
    [] cause \in InheritedKeys -> Inherited(cause)
    [] OTHER                  -> Str(cause)

mapEngineResultToLegacy(engineResult) ==
  [bottleneck        |-> BottleneckOf(engineResult.primary_cause),
   confidence        |-> engineResult.confidence_level,
   confidencePercent |-> engineResult.confidence_percent,
   evidence          |-> engineResult.evidence,
   nextSteps         |-> engineResult.next_steps,
   recommendations   |-> engineResult.next_steps,
   engineResult      |-> engineResult]

\* What the file diagnostic-rules.json can lack: nothing, or one of the keys
\* of a RuleSet.
Missing == {"none", "hypotheses", "elimination_rules", "rules", "next_steps"}

\* new DiagnosticEngine(rules).analyze(sig) on the RuleSet without the key
\* `lacks`: JSON.parse(undefined) throws in the constructor, a for-of over
\* undefined throws in a stage, the evaluation of a null condition throws,
\* and rules.next_steps[...] throws in calculateResult unless the total
\* score is 0.
EngineRun(ruleSet, lacks, sig) ==
  IF lacks \in {"hypotheses", "elimination_rules", "rules"}
  THEN [thrown |-> TRUE]
  ELSE IF AnalyzeThrows(ruleSet, sig)
  THEN [thrown |-> TRUE]
  ELSE LET st == applyScoringRules(
                   applyEliminationRules(Constructed(ruleSet), ruleSet, sig, 1),
                   ruleSet, sig, 1)
       IN  IF lacks = "next_steps" /\ TotalScore(ActiveHypotheses(st.hypotheses)) /= 0
           THEN [thrown |-> TRUE]
           ELSE [thrown |-> FALSE,
                 result |-> calculateResult(st.hypotheses, st.eliminatedCauses,
                                            st.appliedRules, ruleSet)]

\* What the elimination stage and the scoring stage of a whole analysis
\* leave on the function Object.
RECURSIVE ObjectAfterEliminationRules(_, _, _, _)
ObjectAfterEliminationRules(obj, ruleSet, sig, k) ==
  IF k > Len(ruleSet.elimination_rules) THEN obj
  ELSE IF evaluateConditions(ruleSet.elimination_rules[k].if, sig).thrown THEN obj
  ELSE LET rule == ruleSet.elimination_rules[k]
       IN  ObjectAfterEliminationRules(
             IF evaluateConditions(rule.if, sig).ok
             THEN ObjectAfterElimination(obj, ruleSet.hypotheses, rule.eliminate)
             ELSE obj,
             ruleSet, sig, k + 1)

RECURSIVE ObjectAfterScoringRules(_, _, _, _)
ObjectAfterScoringRules(obj, ruleSet, sig, k) ==
  IF k > Len(ruleSet.rules) THEN obj
  ELSE IF evaluateConditions(ruleSet.rules[k].if, sig).thrown THEN obj
  ELSE LET rule == ruleSet.rules[k]
       IN  ObjectAfterScoringRules(
             IF evaluateConditions(rule.if, sig).ok
             THEN ObjectAfterScoring(obj, ruleSet.hypotheses, rule.then, 1)
             ELSE obj,
             ruleSet, sig, k + 1)

ObjectAfterRun(obj, ruleSet, lacks, sig) ==
  IF lacks \in {"hypotheses", "elimination_rules"} THEN obj
  ELSE LET e == ObjectAfterEliminationRules(obj, ruleSet, sig, 1)
       IN  IF lacks = "rules" \/ EliminationThrows(ruleSet, sig) THEN e
           ELSE ObjectAfterScoringRules(e, ruleSet, sig, 1)

\* The parameters of the calls: a slow VPN connection, a moderate latency,
\* and a slow DNS lookup with a good throughput.
ParamMaps ==
  { [k \in {"latency_ms", "vpn_issue"} |->
       IF k = "latency_ms" THEN "600" ELSE "true"],
    [k \in {"latency_ms", "vpn_issue"} |->
       IF k = "latency_ms" THEN "150" ELSE "yes"],
    [k \in {"dns_ms", "vpn_issue", "throughput_mbps"} |->
       CASE k = "dns_ms" -> "600"
         [] k = "vpn_issue" -> "true"
         [] OTHER -> "50"] }

\* The RuleSets that the file can hold: those of at most MaxFileRules rules.
RuleFiles ==
  {ruleSet \in RuleSets :
     Len(ruleSet.elimination_rules) + Len(ruleSet.rules) <= MaxFileRules}

\* The files of as many rules, one of which has a null condition.
NullConditionFiles ==
  {ruleSet \in NullConditionRuleSets :
     Len(ruleSet.elimination_rules) + Len(ruleSet.rules) <= MaxFileRules}

\* The page is loaded: the file and the scripts are what they are.  A file
\* that lacks a key has no scoring rules, and a page without the engine
\* class has a file without rules.
InitResults ==
  /\ rules \in RuleFiles \cup NullConditionFiles
  /\ hypotheses = DeepCopy(rules.hypotheses)
  /\ eliminatedCauses = <<>>
  /\ appliedRules = <<>>
  /\ signals = <<>>
  /\ pc = "Idle"
  /\ idx = 0
  /\ result = NoResult
  /\ stale = FALSE
  /\ evaluated = <<>>
  /\ warnings = <<>>
  /\ objectFn = ObjectUntouched
  /\ missing \in Missing
  /\ engineClass \in BOOLEAN
  /\ missing /= "none" => rules.rules = <<>>
  /\ ~engineClass => (missing = "none" /\ rules.rules = <<>>
                      /\ rules.elimination_rules = <<>>)
  /\ PageIdle
  /\ inv = [i \in Invocations |-> IdleInvocation]
  /\ NoObjects

\* Call c has moved on to `now`.
Moved(c, now) == [calls EXCEPT ![c] = now]

\* analyzeBottleneckWithEngine(params) is called and runs as far as its
\* first wait: with rules in the cache loadDiagnosticRules returns them and
\* the call waits for that promise; with an empty cache it calls fetch and
\* waits for the response.
Call(c, p) ==
  /\ calls[c].pc \in {"NotCalled", "Returned"}
  /\ calls' = Moved(c, IF diagnosticRules /= "null"
                       THEN [pc |-> "AwaitRules", params |-> p,
                             loaded |-> diagnosticRules, analysis |-> NoAnalysis]
                       ELSE [pc |-> "AwaitFetch", params |-> p,
                             loaded |-> "null", analysis |-> NoAnalysis])
  /\ UNCHANGED <<engine, objects, objectFn, missing, engineClass, diagnosticRules>>

\* await fetch(...) gives the response; response.json() is called and
\* waited for.
FetchResolves(c) ==
  /\ calls[c].pc = "AwaitFetch"
  /\ calls' = Moved(c, [calls[c] EXCEPT !.pc = "AwaitJson"])
  /\ UNCHANGED <<engine, objects, objectFn, missing, engineClass, diagnosticRules>>

\* fetch rejects: the catch block logs the error and returns null.
FetchRejects(c) ==
  /\ calls[c].pc = "AwaitFetch"
  /\ calls' = Moved(c, [calls[c] EXCEPT !.pc = "AwaitRules", !.loaded = "null"])
  /\ UNCHANGED <<engine, objects, objectFn, missing, engineClass, diagnosticRules>>

\* await response.json() gives the rules: they are written to the cache,
\* whatever it holds by now, and returned.
JsonResolves(c) ==
  /\ calls[c].pc = "AwaitJson"
  /\ diagnosticRules' = "rules"
  /\ calls' = Moved(c, [calls[c] EXCEPT !.pc = "AwaitRules", !.loaded = "rules"])
  /\ UNCHANGED <<engine, objects, objectFn, missing, engineClass>>

\* response.json() rejects: the catch block logs the error and returns
\* null, and the cache is left as it is.
JsonRejects(c) ==
  /\ calls[c].pc = "AwaitJson"
  /\ calls' = Moved(c, [calls[c] EXCEPT !.pc = "AwaitRules", !.loaded = "null"])
  /\ UNCHANGED <<engine, objects, objectFn, missing, engineClass, diagnosticRules>>

\* rules && typeof DiagnosticEngine !== 'undefined'
UsesEngine(c) == calls[c].loaded /= "null" /\ engineClass

\* (mutant of AfterCatch) the catch block returns, and nothing is returned
ReturnsAfterCatch(p) == NoAnalysis

\* What the call returns after the catch block: the legacy analysis.
AfterCatch(p) == analyzeBottleneckLegacy(p)

\* The call goes on with the rules and the try block runs to its return.
RunEngine(c) ==
  /\ calls[c].pc = "AwaitRules"
  /\ UsesEngine(c)
  /\ LET run == EngineRun(rules, missing, extractSignals(calls[c].params))
     IN  /\ ~run.thrown
         /\ calls' = Moved(c, [calls[c] EXCEPT
                                 !.pc = "Returned",
                                 !.analysis = mapEngineResultToLegacy(run.result)])
  /\ objectFn' = ObjectAfterRun(objectFn, rules, missing,
                                extractSignals(calls[c].params))
  /\ UNCHANGED <<engine, objects, missing, engineClass, diagnosticRules>>

\* The call goes on with the rules, the try block throws, the catch block
\* logs the error and the legacy analysis is returned.
EngineThrows(c) ==
  /\ calls[c].pc = "AwaitRules"
  /\ UsesEngine(c)
  /\ EngineRun(rules, missing, extractSignals(calls[c].params)).thrown
  /\ objectFn' = ObjectAfterRun(objectFn, rules, missing,
                                extractSignals(calls[c].params))
  /\ calls' = Moved(c, [calls[c] EXCEPT
                          !.pc = "Returned",
                          !.analysis = AfterCatch(calls[c].params)])
  /\ UNCHANGED <<engine, objects, missing, engineClass, diagnosticRules>>

\* The call goes on without rules or without the engine class: return
\* analyzeBottleneckLegacy(params)
SkipEngine(c) ==
  /\ calls[c].pc = "AwaitRules"
  /\ ~UsesEngine(c)
  /\ calls' = Moved(c, [calls[c] EXCEPT
                          !.pc = "Returned",
                          !.analysis = analyzeBottleneckLegacy(calls[c].params)])
  /\ UNCHANGED <<engine, objects, objectFn, missing, engineClass, diagnosticRules>>

NextResults ==
  \E c \in Calls :
     \/ \E p \in ParamMaps : Call(c, p)
     \/ FetchResolves(c)
     \/ FetchRejects(c)
     \/ JsonResolves(c)
     \/ JsonRejects(c)
     \/ RunEngine(c)
     \/ EngineThrows(c)
     \/ SkipEngine(c)

SpecResults == InitResults /\ [][NextResults]_vars

(***************************************************************************)
(* Two invocations of analyze() on one engine, one made from inside the    *)
(* other at a boundary between its steps.  analyze() is one synchronous    *)
(* call, so the inner invocation returns before the outer one goes on;     *)
(* each has its own position and argument, and the two share               *)
(* this.hypotheses, this.eliminatedCauses and this.appliedRules.            *)
(***************************************************************************)
InProgress(v) == v.pc \in {"Eliminating", "Scoring"}

\* The fields that after the reset of analyze() still are the objects an
\* earlier result refers to: each of the three is assigned a new object.
SharedAfterReset(old) == {}

\* The fields whose objects calculateResult puts into the result as
\* all_scores, eliminated_causes and applied_rules.
SharedByResult == {"hypotheses", "eliminatedCauses", "appliedRules"}

\* The result of invocation v as it reads once the fields of the engine
\* are hyps, elim and applied: all_scores, eliminated_causes and
\* applied_rules of a returned result are the engine's own objects for as
\* long as no reset has replaced them, and a loop step changes them in place.
ReadThrough(v, hyps, elim, applied) ==
  IF v.result = NoResult THEN v
  ELSE [v EXCEPT
          !.result = [@ EXCEPT
             !.all_scores        = IF "hypotheses" \in v.shared THEN hyps ELSE @,
             !.eliminated_causes = IF "eliminatedCauses" \in v.shared THEN elim ELSE @,
             !.applied_rules     = IF "appliedRules" \in v.shared THEN applied ELSE @]]

\* The invocations after invocation i took a step that left it as `now`
\* and the fields as hyps, elim and applied: when the other one is in
\* progress, the steps of the two are interleaved.
Stepped(i, now, hyps, elim, applied) ==
  LET met == InProgress(inv[3 - i])
  IN  [k \in Invocations |->
         ReadThrough(IF k = i THEN [now EXCEPT !.overlapped = @ \/ met]
                     ELSE [inv[k] EXCEPT !.overlapped = @ \/ met],
                     hyps, elim, applied)]

\* analyze() is synchronous: an invocation that began while the other one
\* was in progress was called from inside it, and the outer one goes on
\* only when the inner one has returned.
Innermost(i) == InProgress(inv[3 - i]) => inv[i].inner

\* The signals maps and the RuleSets of the interleaved invocations.
InterleavedSignals ==
  {<<>>, [k \in {"network_latency_ms"} |-> Num(150)]}

InterleavedRuleSets == {ruleSet \in RuleFiles : Len(ruleSet.hypotheses) = 3}

InitInterleaved ==
  /\ rules \in InterleavedRuleSets
  /\ hypotheses = DeepCopy(rules.hypotheses)
  /\ eliminatedCauses = <<>>
  /\ appliedRules = <<>>
  /\ signals = <<>>
  /\ pc = "Idle"
  /\ idx = 0
  /\ result = NoResult
  /\ stale = FALSE
  /\ evaluated = <<>>
  /\ warnings = <<>>
  /\ objectFn = ObjectUntouched
  /\ missing = "none"
  /\ engineClass = TRUE
  /\ PageIdle
  /\ inv = [i \in Invocations |-> IdleInvocation]
  /\ NoObjects

\* What no step of an interleaved invocation changes.
Apart == <<rules, signals, pc, idx, result, stale, evaluated, warnings, page,
           objects>>

\* Invocation i enters analyze(sig) and resets the fields.
InterleavedAnalyze(i, sig) ==
  /\ inv[i].pc \in {"Idle", "Calculated", "Thrown"}
  /\ hypotheses' = ResetHypotheses(rules, hypotheses)
  /\ eliminatedCauses' = ResetEliminatedCauses(eliminatedCauses)
  /\ appliedRules' = ResetAppliedRules(appliedRules)
  /\ inv' = [k \in Invocations |->
               IF k = i
               THEN [pc |-> "Eliminating", idx |-> 1, signals |-> sig,
                     result |-> NoResult, overlapped |-> InProgress(inv[3 - i]),
                     inner |-> InProgress(inv[3 - i]), shared |-> {}]
               ELSE [inv[k] EXCEPT !.overlapped = @ \/ InProgress(inv[k]),
                                   !.shared = SharedAfterReset(@)]]
  /\ UNCHANGED <<Apart, objectFn>>

\* One iteration of the loop of applyEliminationRules in invocation i.
InterleavedEliminationStep(i) ==
  /\ inv[i].pc = "Eliminating"
  /\ Innermost(i)
  /\ ~LoopOver(inv[i].idx, rules.elimination_rules)
  /\ LET rule == rules.elimination_rules[inv[i].idx]
         m    == evaluateConditions(rule.if, inv[i].signals)
         st   == EliminateFrom([hypotheses |-> hypotheses,
                                eliminatedCauses |-> eliminatedCauses],
                               rule.eliminate, 1)
     IN  /\ hypotheses' = IF m.ok THEN st.hypotheses ELSE hypotheses
         /\ eliminatedCauses' = IF m.ok THEN st.eliminatedCauses ELSE eliminatedCauses
         /\ appliedRules' = IF m.ok THEN Push(appliedRules, EliminationRecord(rule))
                            ELSE appliedRules
         /\ objectFn' = IF m.ok
                         THEN ObjectAfterElimination(objectFn, hypotheses, rule.eliminate)
                         ELSE objectFn
         /\ inv' = Stepped(i, IF m.thrown THEN [inv[i] EXCEPT !.pc = "Thrown"]
                                ELSE [inv[i] EXCEPT !.idx = NextIndex(@)],
                            hypotheses', eliminatedCauses', appliedRules')
  /\ UNCHANGED Apart

\* applyEliminationRules returns in invocation i.
InterleavedStartScoring(i) ==
  /\ inv[i].pc = "Eliminating"
  /\ Innermost(i)
  /\ LoopOver(inv[i].idx, rules.elimination_rules)
  /\ inv' = Stepped(i, [inv[i] EXCEPT !.pc = "Scoring", !.idx = 1],
                     hypotheses, eliminatedCauses, appliedRules)
  /\ UNCHANGED <<Apart, hypotheses, eliminatedCauses, appliedRules, objectFn>>

\* One iteration of the loop of applyScoringRules in invocation i.
InterleavedScoringStep(i) ==
  /\ inv[i].pc = "Scoring"
  /\ Innermost(i)
  /\ ~LoopOver(inv[i].idx, rules.rules)
  /\ LET rule == rules.rules[inv[i].idx]
         m    == evaluateConditions(rule.if, inv[i].signals)
     IN  /\ hypotheses' = IF m.ok THEN ScoreFrom(hypotheses, rule.then, 1)
                          ELSE hypotheses
         /\ appliedRules' = IF m.ok THEN Push(appliedRules, ScoringRecord(rule))
                            ELSE appliedRules
         /\ objectFn' = IF m.ok
                         THEN ObjectAfterScoring(objectFn, hypotheses, rule.then, 1)
                         ELSE objectFn
         /\ inv' = Stepped(i, IF m.thrown THEN [inv[i] EXCEPT !.pc = "Thrown"]
                                ELSE [inv[i] EXCEPT !.idx = NextIndex(@)],
                            hypotheses', eliminatedCauses, appliedRules')
  /\ UNCHANGED <<Apart, eliminatedCauses>>

\* calculateResult in invocation i, which returns.
InterleavedCalculate(i) ==
  /\ inv[i].pc = "Scoring"
  /\ Innermost(i)
  /\ LoopOver(inv[i].idx, rules.rules)
  /\ inv' = Stepped(i, [inv[i] EXCEPT
                          !.pc = "Calculated", !.idx = 0,
                          !.result = calculateResult(hypotheses, eliminatedCauses,
                                                     appliedRules, rules),
                          !.shared = SharedByResult],
                     hypotheses, eliminatedCauses, appliedRules)
  /\ UNCHANGED <<Apart, hypotheses, eliminatedCauses, appliedRules, objectFn>>

NextInterleaved ==
  \E i \in Invocations :
     \/ \E sig \in InterleavedSignals : InterleavedAnalyze(i, sig)
     \/ InterleavedEliminationStep(i)
     \/ InterleavedStartScoring(i)
     \/ InterleavedScoringStep(i)
     \/ InterleavedCalculate(i)

SpecInterleaved == InitInterleaved /\ [][NextInterleaved]_vars

(***************************************************************************)
(* The objects.  The RuleSet, the snapshot and the two lists of an engine  *)
(* and three members of a result are objects, which a field or a member    *)
(* holds by reference.  heap is the sequence of the objects made so far:   *)
(* the address of an object is its position, a reference is an address,    *)
(* and an assignment to a property or a push changes the object at the     *)
(* address the reference leads to, for every holder of that address.       *)
(* analyze() is synchronous, so the calls a caller makes on the engines    *)
(* built over one RuleSet follow one another.                               *)
(***************************************************************************)
MaxAnalyses == 3

\* The RuleSet that JSON.parse gave the caller: the RuleSet object at
\* address 1, an object for each hypothesis, and the object rules.hypotheses,
\* whose entries refer to them in key order.  The two rule lists and
\* next_steps are kept in the RuleSet object as they are: the engine assigns
\* to no property of theirs and pushes on none of them.  A hypothesis of
\* the file has no eliminated flag, which reads as false.
RuleSetAddress == 1
ParsedRuleSet(ruleSet) ==
  LET n == Len(ruleSet.hypotheses)
  IN  <<[kind |-> "rules", hypotheses |-> n + 2,
         elimination_rules |-> ruleSet.elimination_rules,
         rules |-> ruleSet.rules,
         next_steps |-> ruleSet.next_steps]>>
      \o [k \in 1..n |->
            [kind |-> "hypothesis", score |-> ruleSet.hypotheses[k].score,
             eliminated |-> FALSE]]
      \o <<[kind |-> "object",
            entries |-> [k \in 1..n |->
                           [name |-> ruleSet.hypotheses[k].name, ref |-> k + 1]]]>>

\* The entries of the object at ref, each with the score and the flag of
\* the hypothesis it refers to.
ReadHypotheses(h, ref) ==
  LET entries == h[ref].entries
  IN  [k \in 1..Len(entries) |->
         [name       |-> entries[k].name,
          score      |-> h[entries[k].ref].score,
          eliminated |-> h[entries[k].ref].eliminated]]

\* The RuleSet read through the reference this.rules.
ReadRuleSet(h, ref) ==
  LET table == ReadHypotheses(h, h[ref].hypotheses)
  IN  [hypotheses        |-> [k \in 1..Len(table) |->
                                Hyp(table[k].name, table[k].score)],
       elimination_rules |-> h[ref].elimination_rules,
       rules             |-> h[ref].rules,
       next_steps        |-> h[ref].next_steps]

\* (mutant of JsonParseStringify) a copy one level deep, as
\* Object.assign({}, rules.hypotheses) makes it: a new object whose entries
\* refer to the hypotheses of the original
ShallowCopy(h, ref) ==
  [heap |-> Append(h, h[ref]), ref |-> Len(h) + 1]

\* JSON.parse(JSON.stringify(object)) on the object at ref: JSON.parse
\* builds a new object for every object of the text, so each hypothesis is
\* made anew, with the score and the flag the original has, and so is the
\* object that holds them.  Gives the heap and the address of the copy.
JsonParseStringify(h, ref) ==
  LET entries == h[ref].entries
      n       == Len(entries)
  IN  [heap |-> h \o [k \in 1..n |->
                        [kind |-> "hypothesis",
                         score |-> h[entries[k].ref].score,
                         eliminated |-> h[entries[k].ref].eliminated]]
                  \o <<[kind |-> "object",
                        entries |-> [k \in 1..n |->
                                       [name |-> entries[k].name,
                                        ref |-> Len(h) + k]]]>>,
       ref  |-> Len(h) + n + 1]

\* (mutant of NewArray) the array the field holds is emptied in place
\* (this.eliminatedCauses.length = 0) when there is one
EmptiedArray(h, old) ==
  IF old = 0
  THEN [heap |-> Append(h, [kind |-> "array", items |-> <<>>]), ref |-> Len(h) + 1]
  ELSE [heap |-> [h EXCEPT ![old].items = <<>>], ref |-> old]

\* The array literal [], assigned to a field that held the address `old`:
\* a new, empty array.  Gives the heap and the address of the array.
NewArray(h, old) ==
  [heap |-> Append(h, [kind |-> "array", items |-> <<>>]), ref |-> Len(h) + 1]

\* The three fields of the engine `this` as the stages read them.
ReadFields(h, this) ==
  [hypotheses       |-> ReadHypotheses(h, this.hypotheses),
   eliminatedCauses |-> h[this.eliminatedCauses].items,
   appliedRules     |-> h[this.appliedRules].items,
   thrown           |-> FALSE]

\* The heap once the stages have left the fields reading as st.  Every
\* assignment of the two stages is to a property of this.hypotheses[name]
\* and every push is on this.eliminatedCauses or this.appliedRules, and no
\* stage assigns one of the three fields: the hypotheses that the entries
\* of the object at this.hypotheses refer to and the two arrays are the
\* objects written.
WriteFields(h, this, st) ==
  LET entries    == h[this.hypotheses].entries
      Written(a) == \E k \in 1..Len(entries) : entries[k].ref = a
      At(a)      == CHOOSE k \in 1..Len(entries) : entries[k].ref = a
  IN  [a \in 1..Len(h) |->
         IF Written(a)
         THEN [h[a] EXCEPT !.score      = st.hypotheses[At(a)].score,
                           !.eliminated = st.hypotheses[At(a)].eliminated]
         ELSE IF a = this.eliminatedCauses
         THEN [h[a] EXCEPT !.items = st.eliminatedCauses]
         ELSE IF a = this.appliedRules
         THEN [h[a] EXCEPT !.items = st.appliedRules]
         ELSE h[a]]

\* The result that an analyze(sig) on engine e gave the caller.  The members
\* all_scores, eliminated_causes and applied_rules of a result are
\* this.hypotheses, this.eliminatedCauses and this.appliedRules: the
\* addresses the fields hold when calculateResult runs.
ResultOf(e, sig, res, this) ==
  [engine |-> e, signals |-> sig, thrown |-> FALSE,
   result |-> [res EXCEPT !.all_scores        = this.hypotheses,
                          !.eliminated_causes = this.eliminatedCauses,
                          !.applied_rules     = this.appliedRules]]

\* The RuleSets of these analyses: those of three hypotheses whose rules are
\* among E2, E3, E4, S1, S3 and S7; and their signals maps.
ObjectRuleSets ==
  {ruleSet \in RuleSets \cup NullConditionRuleSets :
     /\ Len(ruleSet.hypotheses) = 3
     /\ \A k \in 1..Len(ruleSet.elimination_rules) :
           ruleSet.elimination_rules[k].id \in {"E2", "E3", "E4"}
     /\ \A k \in 1..Len(ruleSet.rules) :
           ruleSet.rules[k].id \in {"S1", "S3", "S7"}}

ObjectSignals ==
  { [k \in {"network_latency_ms"} |-> Num(150)],
    [k \in {"network_latency_ms", "vpn_in_use"} |->
       IF k = "network_latency_ms" THEN Num(50) ELSE Bool(TRUE)] }

\* const rules = JSON.parse(...): the caller holds the RuleSet and has
\* built no engine.
InitObjects ==
  /\ rules \in ObjectRuleSets
  /\ hypotheses = DeepCopy(rules.hypotheses)
  /\ eliminatedCauses = <<>>
  /\ appliedRules = <<>>
  /\ signals = <<>>
  /\ pc = "Idle"
  /\ idx = 0
  /\ result = NoResult
  /\ stale = FALSE
  /\ evaluated = <<>>
  /\ warnings = <<>>
  /\ objectFn = ObjectUntouched
  /\ missing = "none"
  /\ engineClass = TRUE
  /\ PageIdle
  /\ inv = [i \in Invocations |-> IdleInvocation]
  /\ heap = ParsedRuleSet(rules)
  /\ engines = [e \in Engines |-> NotBuilt]
  /\ returned = <<>>

\* engine e = new DiagnosticEngine(rules), over the RuleSet the caller holds
NewEngine(e) ==
  /\ ~engines[e].built
  /\ LET copy    == JsonParseStringify(heap, heap[RuleSetAddress].hypotheses)
         causes  == NewArray(copy.heap, 0)
         applied == NewArray(causes.heap, 0)
     IN  /\ heap' = applied.heap
         /\ engines' = [engines EXCEPT ![e] =
                          [built            |-> TRUE,
                           rules            |-> RuleSetAddress,
                           hypotheses       |-> copy.ref,
                           eliminatedCauses |-> causes.ref,
                           appliedRules     |-> applied.ref]]
  /\ UNCHANGED <<engine, page, objectFn, returned>>

\* analyze(sig) on engine e, from the reset to the return or the exception
AnalyzeOn(e, sig) ==
  /\ engines[e].built
  /\ Len(returned) < MaxAnalyses
  /\ LET copy    == JsonParseStringify(heap, heap[engines[e].rules].hypotheses)
         causes  == NewArray(copy.heap, engines[e].eliminatedCauses)
         applied == NewArray(causes.heap, engines[e].appliedRules)
         this    == [engines[e] EXCEPT !.hypotheses       = copy.ref,
                                       !.eliminatedCauses = causes.ref,
                                       !.appliedRules     = applied.ref]
         ruleSet == ReadRuleSet(applied.heap, this.rules)
         st      == IF EliminationThrows(ruleSet, sig)
                    THEN applyEliminationRules(ReadFields(applied.heap, this),
                                               ruleSet, sig, 1)
                    ELSE applyScoringRules(
                           applyEliminationRules(ReadFields(applied.heap, this),
                                                 ruleSet, sig, 1),
                           ruleSet, sig, 1)
         written == WriteFields(applied.heap, this, st)
     IN  /\ heap' = written
         /\ engines' = [engines EXCEPT ![e] = this]
         /\ returned' =
              Append(returned,
                     IF AnalyzeThrows(ruleSet, sig)
                     THEN [engine |-> e, signals |-> sig, thrown |-> TRUE,
                           result |-> NoResult]
                     ELSE ResultOf(e, sig,
                                   calculateResult(
                                     ReadHypotheses(written, this.hypotheses),
                                     written[this.eliminatedCauses].items,
                                     written[this.appliedRules].items,
                                     ReadRuleSet(written, this.rules)),
                                   this))
         /\ objectFn' = ObjectAfterRun(objectFn, ruleSet, "none", sig)
  /\ UNCHANGED <<engine, page>>

NextObjects ==
  \E e \in Engines :
     \/ NewEngine(e)
     \/ \E sig \in ObjectSignals : AnalyzeOn(e, sig)

SpecObjects == InitObjects /\ [][NextObjects]_vars

(***************************************************************************)
(* Properties                                                              *)
(***************************************************************************)
InAnalysis == pc \in {"Eliminating", "Scoring"}

\* The configuration contract: no initial score is negative.
NonNegativeInitial(ruleSet) ==
  \A k \in 1..Len(ruleSet.hypotheses) : ruleSet.hypotheses[k].score >= 0

\* The position of the hypothesis `name` in rules.hypotheses.
Declared(ruleSet, name) ==
  CHOOSE k \in 1..Len(ruleSet.hypotheses) : ruleSet.hypotheses[k].name = name

\* The sum of the scores of the hypotheses that are not eliminated.
RECURSIVE ActiveSumFrom(_, _)
ActiveSumFrom(hyps, k) ==
  IF k > Len(hyps) THEN 0
  ELSE (IF hyps[k].eliminated THEN 0 ELSE hyps[k].score) + ActiveSumFrom(hyps, k + 1)

ActiveSum(hyps) == ActiveSumFrom(hyps, 1)

\* The evaluations one analyze() makes: every elimination rule, then every
\* scoring rule, each once, in declaration order.
ExpectedEvaluation(ruleSet) ==
  LET ne == Len(ruleSet.elimination_rules)
      ns == Len(ruleSet.rules)
  IN  [k \in 1..(ne + ns) |->
         IF k <= ne THEN <<"elimination", k>> ELSE <<"scoring", k - ne>>]

IsPrefix(p, q) == Len(p) <= Len(q) /\ p = SubSeq(q, 1, Len(p))

\* The position in its rule list of the rule an applied-rule record is of.
RulePosition(ruleSet, rec) ==
  LET list == IF rec.type = "elimination" THEN ruleSet.elimination_rules
              ELSE ruleSet.rules
  IN  CHOOSE k \in 1..Len(list) : list[k].id = rec.id

HasScoringRecord(applied) ==
  \E j \in 1..Len(applied) : applied[j].type = "scoring"

----------------------------------------------------------------------------
\* C1: within one analyze(), a hypothesis that is eliminated has score 0, and
\* no later step of that analysis, elimination or scoring, whatever its
\* delta, changes its flag or its score.
C1_EliminatedFrozen ==
  [][InAnalysis =>
       \A k \in 1..Len(hypotheses) :
          /\ hypotheses'[k].eliminated => hypotheses'[k].score = 0
          /\ hypotheses[k].eliminated => hypotheses'[k].eliminated]_vars

\* A scoring rule with a positive delta for an eliminated hypothesis has fired.
C1_Witness ==
  /\ pc = "Scoring"
  /\ \E j \in 1..Len(appliedRules) :
        /\ appliedRules[j].type = "scoring"
        /\ \E e \in 1..Len(appliedRules[j].scores) :
              /\ appliedRules[j].scores[e].delta > 0
              /\ \E k \in 1..Len(hypotheses) :
                    /\ hypotheses[k].name = appliedRules[j].scores[e].name
                    /\ hypotheses[k].eliminated

\* C2: analyze() evaluates every elimination rule in declaration order, then
\* every scoring rule in declaration order; in the applied-rule log every
\* elimination record precedes every scoring record, records of one kind
\* are in declaration order, and no rule has two records.
C2_EliminationBeforeScoring ==
  /\ IsPrefix(evaluated, ExpectedEvaluation(rules))
  /\ pc = "Calculated" =>
       /\ evaluated = ExpectedEvaluation(rules)
       /\ result.applied_rules = appliedRules
  /\ \A i, j \in 1..Len(appliedRules) :
        i < j =>
          /\ ~(appliedRules[i].type = "scoring" /\ appliedRules[j].type = "elimination")
          /\ appliedRules[i].type = appliedRules[j].type =>
               RulePosition(rules, appliedRules[i]) < RulePosition(rules, appliedRules[j])

\* An analysis in which two elimination rules and two scoring rules fired.
C2_Witness ==
  /\ pc = "Calculated"
  /\ Len(result.applied_rules) = 4
  /\ result.applied_rules[2].type = "elimination"
  /\ result.applied_rules[3].type = "scoring"

\* C3: with non-negative initial scores, no score is negative in any state:
\* not after the elimination stage, not after any scoring rule.
C3_ScoresNonNegative ==
  NonNegativeInitial(rules) =>
    \A k \in 1..Len(hypotheses) : hypotheses[k].score >= 0

\* A delta of -20 has been applied to a hypothesis that started at 10 and is
\* not eliminated; its score is 0.
C3_Witness ==
  /\ pc = "Scoring"
  /\ NonNegativeInitial(rules)
  /\ rules.hypotheses[1] = Hyp("dns", 10)
  /\ ~hypotheses[1].eliminated
  /\ hypotheses[1].score = 0
  /\ \E j \in 1..Len(appliedRules) :
        /\ appliedRules[j].type = "scoring"
        /\ \E e \in 1..Len(appliedRules[j].scores) :
              appliedRules[j].scores[e] = Delta("dns", -20)

\* C4: every analyze() on a used instance starts from the state of a newly
\* constructed engine and returns what a newly constructed engine over the
\* same RuleSet returns for the same signals.
C4_SameAsFreshEngine ==
  /\ (pc = "Eliminating" /\ idx = 1) =>
        /\ hypotheses = Constructed(rules).hypotheses
        /\ eliminatedCauses = <<>>
        /\ appliedRules = <<>>
  /\ pc = "Calculated" => result = FreshAnalyze(rules, signals)

\* An analyze() has returned on an instance whose fields an earlier
\* analysis had changed.
C4_Witness ==
  /\ pc = "Calculated"
  /\ stale
  /\ result.primary_cause /= "unknown"

\* The steps analyze() still has to take: the rules not yet evaluated, the
\* two loop exits and calculateResult.
StepsLeft ==
  CASE pc = "Eliminating" ->
         (Len(rules.elimination_rules) + 1 - idx) + 1 + Len(rules.rules) + 1
    [] pc = "Scoring" -> (Len(rules.rules) + 1 - idx) + 1
    [] OTHER -> 0

\* The guards of the four steps of an analysis: in each loop either a rule
\* is left or the loop is over.
StepGuard ==
  \/ pc = "Eliminating" /\ ~LoopOver(idx, rules.elimination_rules)
  \/ pc = "Eliminating" /\ LoopOver(idx, rules.elimination_rules)
  \/ pc = "Scoring" /\ ~LoopOver(idx, rules.rules)
  \/ pc = "Scoring" /\ LoopOver(idx, rules.rules)

\* C5: for every well-formed RuleSet and signals map, analyze() terminates
\* and returns a result: while it runs, a step is possible, no step ends
\* with an exception and each step takes it one closer to Calculated; it
\* reaches Calculated having evaluated each elimination rule and each
\* scoring rule exactly once; and what it returns is a result, never a
\* failure.
C5_Terminates ==
  [][WellFormed(rules) =>
       /\ InAnalysis =>
            (StepGuard /\ StepsLeft > 0 /\ StepsLeft' = StepsLeft - 1)
       /\ pc' /= "Thrown"
       /\ pc' = "Calculated" =>
            /\ evaluated' = ExpectedEvaluation(rules')
            /\ result' /= NoResult
            /\ result'.confidence_level \in {"Low", "Medium", "High"}
            /\ result'.primary_cause \in
                 {"unknown"} \cup {hypotheses'[k].name : k \in 1..Len(hypotheses')}]_vars

\* analyze() has returned after evaluating two rules of each kind.
C5_Witness ==
  /\ pc = "Calculated"
  /\ Len(evaluated) = 4
  /\ evaluated[2][1] = "elimination"
  /\ result /= NoResult

\* C6: when the scores of the hypotheses that are not eliminated sum to 0,
\* also when every hypothesis is eliminated, the result is the "unknown"
\* one: primary_cause "unknown", confidence_percent 0, confidence_level
\* "Low", and eliminated_causes as collected.
C6_ZeroTotalIsUnknown ==
  (pc = "Calculated" /\ ActiveSum(hypotheses) = 0) =>
     /\ result.primary_cause = "unknown"
     /\ result.confidence_percent = 0
     /\ result.confidence_level = "Low"
     /\ result.eliminated_causes = eliminatedCauses

\* analyze() has returned with every hypothesis eliminated.
C6_Witness ==
  /\ pc = "Calculated"
  /\ Len(hypotheses) = 3
  /\ \A k \in 1..Len(hypotheses) : hypotheses[k].eliminated
  /\ \A k \in 1..Len(hypotheses) :
       \E j \in 1..Len(result.eliminated_causes) :
          result.eliminated_causes[j] = hypotheses[k].name

\* The sum of the initial scores of the hypotheses that are not eliminated.
RECURSIVE InitialActiveSumFrom(_, _, _)
InitialActiveSumFrom(ruleSet, hyps, k) ==
  IF k > Len(hyps) THEN 0
  ELSE (IF hyps[k].eliminated THEN 0
        ELSE ruleSet.hypotheses[Declared(ruleSet, hyps[k].name)].score)
       + InitialActiveSumFrom(ruleSet, hyps, k + 1)

InitialActiveSum(ruleSet, hyps) == InitialActiveSumFrom(ruleSet, hyps, 1)

\* C7 as stated: when no scoring rule's trigger matches the signals,
\* analyze() returns the "unknown" verdict.
C7_Original ==
  (pc = "Calculated" /\ ~HasScoringRecord(appliedRules)) =>
     result.primary_cause = "unknown"

\* C7, amended: when no scoring rule's trigger matches the signals, analyze()
\* returns the "unknown" verdict if the initial scores of the hypotheses
\* left by the elimination stage sum to 0; otherwise it returns a ranked
\* result whose primary cause is one of those hypotheses, with its initial
\* score as raw_score.
C7_NoEvidence ==
  (pc = "Calculated" /\ ~HasScoringRecord(appliedRules)) =>
     IF InitialActiveSum(rules, hypotheses) = 0
     THEN /\ result.primary_cause = "unknown"
          /\ result.confidence_percent = 0
          /\ result.confidence_level = "Low"
     ELSE /\ "raw_score" \in DOMAIN result
          /\ \E k \in 1..Len(hypotheses) :
                /\ hypotheses[k].name = result.primary_cause
                /\ ~hypotheses[k].eliminated
                /\ result.raw_score =
                     rules.hypotheses[Declared(rules, hypotheses[k].name)].score

\* No scoring rule matched, nothing was eliminated, and the result is "unknown".
C7_Witness ==
  /\ pc = "Calculated"
  /\ Len(rules.rules) > 0
  /\ ~HasScoringRecord(appliedRules)
  /\ eliminatedCauses = <<>>
  /\ result.primary_cause = "unknown"

Ranked == pc = "Calculated" /\ ActiveSum(hypotheses) /= 0

\* C8: the ranked list is in descending order of confidence_percent, and
\* hypotheses with equal confidence_percent are in the order in which the
\* RuleSet declares them.
C8_RankedStable ==
  Ranked =>
    \A i, j \in 1..Len(result.all_hypotheses) :
       i < j =>
         LET a == result.all_hypotheses[i]
             c == result.all_hypotheses[j]
         IN  /\ a.confidence_percent >= c.confidence_percent
             /\ a.confidence_percent = c.confidence_percent =>
                  Declared(rules, a.name) < Declared(rules, c.name)

\* Three hypotheses are ranked, two of them tie on confidence_percent, and
\* one is ranked ahead of a hypothesis that the RuleSet declares before it.
C8_Witness ==
  /\ Ranked
  /\ Len(result.all_hypotheses) = 3
  /\ \E k \in 1..2 :
        result.all_hypotheses[k].confidence_percent
          = result.all_hypotheses[k + 1].confidence_percent
  /\ \E k \in 1..2 :
        /\ result.all_hypotheses[k].confidence_percent
             > result.all_hypotheses[k + 1].confidence_percent
        /\ Declared(rules, result.all_hypotheses[k].name)
             > Declared(rules, result.all_hypotheses[k + 1].name)

\* C9: primary_cause, confidence_percent and raw_score are those of the first
\* hypothesis of the ranked list; confidence_level is "High" exactly when
\* confidence_percent >= 65, "Medium" exactly when it is in 40..64, "Low"
\* exactly when it is below 40.
C9_PrimaryAndLevel ==
  Ranked =>
    LET first == result.all_hypotheses[1]
        p     == result.confidence_percent
    IN  /\ result.primary_cause = first.name
        /\ p = first.confidence_percent
        /\ result.raw_score = first.score
        /\ (result.confidence_level = "High")   <=> (p >= 65)
        /\ (result.confidence_level = "Medium") <=> (40 <= p /\ p < 65)
        /\ (result.confidence_level = "Low")    <=> (p < 40)

\* A result whose confidence_percent is exactly 65.
C9_Witness ==
  /\ Ranked
  /\ result.confidence_percent = 65
  /\ result.confidence_level = "High"

\* score / total * 100 rounded to the nearest integer, a half going up.
ExactRoundedPercent(score, total) == (200 * score + total) \div (2 * total)

\* C10: each active hypothesis's confidence_percent is score / total * 100
\* rounded to the nearest integer, halves away from zero, and is in 0..100.
C10_ExactRounding ==
  (Ranked /\ NonNegativeInitial(rules)) =>
    \A k \in 1..Len(result.all_hypotheses) :
       LET h == result.all_hypotheses[k]
       IN  /\ h.confidence_percent = ExactRoundedPercent(h.score, ActiveSum(hypotheses))
           /\ h.confidence_percent \in 0..100

\* The sum of confidence_percent over a ranked list.
RECURSIVE PercentSumFrom(_, _)
PercentSumFrom(list, k) ==
  IF k > Len(list) THEN 0
  ELSE list[k].confidence_percent + PercentSumFrom(list, k + 1)

PercentSum(list) == PercentSumFrom(list, 1)

\* C11: when the total active score is positive, the confidence_percent of
\* the n active hypotheses sum to 100 give or take n/2; the sum is what the
\* individual roundings give, not a value brought back to 100.
C11_SumNear100 ==
  (pc = "Calculated" /\ ActiveSum(hypotheses) > 0) =>
    LET n == Len(result.all_hypotheses)
        s == PercentSum(result.all_hypotheses)
    IN  /\ 2 * Abs(s - 100) <= n
        /\ n = Len(ActiveHypotheses(hypotheses))

\* Three active hypotheses at 33% each: the sum is 99.
C11_Witness ==
  /\ pc = "Calculated" /\ ActiveSum(hypotheses) > 0
  /\ Len(result.all_hypotheses) = 3
  /\ PercentSum(result.all_hypotheses) = 99

\* The members of `keep` in the order of their first occurrence in `names`.
RECURSIVE FirstOccurrences(_, _, _)
FirstOccurrences(names, keep, k) ==
  IF k > Len(names) THEN <<>>
  ELSE IF names[k] \in keep
       THEN <<names[k]>> \o FirstOccurrences(names, keep \ {names[k]}, k + 1)
       ELSE FirstOccurrences(names, keep, k + 1)

Occurrences(list, x) == Cardinality({k \in 1..Len(list) : list[k] = x})

\* The names of a list that are hypotheses of the snapshot, in list order.
AmongHypotheses(list, hyps) ==
  LET IsHypothesis(name) == OwnHypothesis(hyps, name)
  IN  SelectSeq(list, IsHypothesis)

\* C12: eliminated_causes lists each eliminated hypothesis exactly once, in
\* the order in which the hypotheses were first eliminated: among the
\* hypotheses, every elimination rule appends those it eliminates for the
\* first time, in the order its `eliminate` list names them, and no other;
\* the result carries that list.
C12_EliminatedOnceInOrder ==
  [][ /\ (pc = "Eliminating" /\ ~LoopOver(idx, rules.elimination_rules)) =>
           LET rule  == rules.elimination_rules[idx]
               newly == {hypotheses[k].name : k \in
                           {j \in 1..Len(hypotheses) :
                              ~hypotheses[j].eliminated /\ hypotheses'[j].eliminated}}
           IN  /\ AmongHypotheses(eliminatedCauses', hypotheses) =
                    AmongHypotheses(eliminatedCauses, hypotheses)
                      \o FirstOccurrences(rule.eliminate, newly, 1)
               /\ \A k \in 1..Len(hypotheses') :
                    Occurrences(eliminatedCauses', hypotheses'[k].name)
                      = IF hypotheses'[k].eliminated THEN 1 ELSE 0
      /\ pc' = "Calculated" => result'.eliminated_causes = eliminatedCauses
    ]_vars

\* Two elimination rules fired; the first eliminated "net", the second names
\* "net" twice more, around "dns".
C12_Witness ==
  /\ pc = "Calculated"
  /\ result.eliminated_causes = <<"net", "dns">>
  /\ Len(appliedRules) >= 2
  /\ appliedRules[1].id = "E1" /\ appliedRules[2].id = "E2"

\* The rule list of the stage in progress, and the rule about to be evaluated.
CurrentList == IF pc = "Eliminating" THEN rules.elimination_rules ELSE rules.rules
RuleAtHand  == InAnalysis /\ ~LoopOver(idx, CurrentList)
CurrentRule == CurrentList[idx]

TriggerKeys(rule) == {rule.if[k].key : k \in 1..Len(rule.if)}

\* C13: a rule whose trigger has a key that is absent from the signals does
\* not fire: its evaluation changes no score, no flag and no list.
C13_MissingKeyNeverFires ==
  [][ (RuleAtHand /\ ~(TriggerKeys(CurrentRule) \subseteq DOMAIN signals)) =>
        UNCHANGED <<hypotheses, eliminatedCauses, appliedRules>> ]_vars

\* The rule's trigger lists an operator that evaluateOperators has no case for.
HasUnknownOperator(rule) ==
  \E k \in 1..Len(rule.if) :
     /\ rule.if[k].cond.kind = "ops"
     /\ \E j \in 1..Len(rule.if[k].cond.ops) :
          rule.if[k].cond.ops[j].op \notin KnownOperators

AllRules(ruleSet) ==
  {ruleSet.elimination_rules[k] : k \in 1..Len(ruleSet.elimination_rules)}
    \cup {ruleSet.rules[k] : k \in 1..Len(ruleSet.rules)}

\* C14: a rule whose trigger contains an operator other than >, >=, <, <=,
\* ==, != never matches: evaluating it changes no score, flag or list and
\* the analysis goes on to the next rule; analyze() returns a valid result
\* in which no applied-rule record is of such a rule.
C14_UnknownOperatorNeverMatches ==
  [][ /\ (RuleAtHand /\ HasUnknownOperator(CurrentRule)) =>
           /\ UNCHANGED <<hypotheses, eliminatedCauses, appliedRules>>
           /\ pc' = pc /\ idx' = idx + 1
      /\ pc' = "Calculated" =>
           /\ result'.confidence_level \in {"Low", "Medium", "High"}
           /\ result'.primary_cause \in
                {"unknown"} \cup {hypotheses[k].name : k \in 1..Len(hypotheses)}
           /\ \A k \in 1..Len(result'.applied_rules) :
                \A rule \in AllRules(rules) :
                   rule.id = result'.applied_rules[k].id => ~HasUnknownOperator(rule)
    ]_vars

\* analyze() has returned after the rule with the operator ">>" was evaluated
\* as far as that operator, every condition before it satisfied.
C14_Witness ==
  /\ pc = "Calculated"
  /\ \E k \in 1..Len(rules.rules) : HasUnknownOperator(rules.rules[k])
  /\ warnings /= <<>>
  /\ result /= NoResult

\* C15: whenever a rule whose trigger contains an unrecognized operator is
\* evaluated, console.warn is called for it, whatever the signals are.
C15_AlwaysWarns ==
  [][ (RuleAtHand /\ HasUnknownOperator(CurrentRule)) =>
        Len(warnings') > Len(warnings) ]_vars

\* The step in progress evaluates a rule and the rule fires: its record is
\* appended to appliedRules.
Fires == RuleAtHand /\ Len(appliedRules') = Len(appliedRules) + 1

\* The conditions of the rule that are a string, a boolean or a number.
ScalarConditions(rule) ==
  {k \in 1..Len(rule.if) : TypeOf(rule.if[k].cond) \in {"string", "boolean", "number"}}
OnlyScalars(rule) == Len(rule.if) > 0 /\ ScalarConditions(rule) = 1..Len(rule.if)

\* The signal of the k-th condition of the rule is present and equal, under
\* the equality eq, to the scalar the condition gives.
ScalarSatisfied(rule, k, sig, eq(_, _)) ==
  /\ rule.if[k].key \in DOMAIN sig
  /\ eq(sig[rule.if[k].key], rule.if[k].cond.val)

\* C16 as claimed: a scalar condition is satisfied under loose equality, so
\* a rule with only scalar conditions fires when each signal is loosely
\* equal to its condition.
C16_Original ==
  [][ (/\ RuleAtHand
       /\ OnlyScalars(CurrentRule)
       /\ \A k \in ScalarConditions(CurrentRule) :
            ScalarSatisfied(CurrentRule, k, signals, LooseEquals)) => Fires ]_vars

\* C16, amended: a scalar condition is satisfied under strict equality.  A
\* rule fires only if the signal of each of its scalar conditions is present
\* with the condition's type and value, and a rule with only scalar
\* conditions fires exactly then.
C16_ScalarStrict ==
  [][ RuleAtHand =>
        LET strict == \A k \in ScalarConditions(CurrentRule) :
                         ScalarSatisfied(CurrentRule, k, signals, StrictEquals)
        IN  /\ Fires => strict
            /\ OnlyScalars(CurrentRule) => (Fires <=> strict) ]_vars

\* The rule with the scalar condition 150 was evaluated against the string
\* "150" and has no record, and the rule with the scalar condition true was
\* evaluated against true and has one.
C16_Witness ==
  /\ pc = "Calculated"
  /\ "network_latency_ms" \in DOMAIN signals /\ signals["network_latency_ms"] = Str("150")
  /\ "vpn_in_use" \in DOMAIN signals /\ signals["vpn_in_use"] = Bool(TRUE)
  /\ \E k \in 1..Len(rules.rules) : rules.rules[k].id = "S4"
  /\ \A k \in 1..Len(appliedRules) : appliedRules[k].id /= "S4"
  /\ \E k \in 1..Len(appliedRules) : appliedRules[k].id = "E2"

\* Every operator of the set is one of the six and holds between the signal
\* value and its threshold.
OperatorSetHolds(value, operators) ==
  \A j \in 1..Len(operators) :
     /\ operators[j].op \in KnownOperators
     /\ OperatorHolds(operators[j].op, value, operators[j].threshold)

\* Every key of the rule's trigger is in the signals map with a value that
\* satisfies the key's condition.
TriggerSatisfied(rule, sig) ==
  \A k \in 1..Len(rule.if) :
     LET key       == rule.if[k].key
         condition == rule.if[k].cond
     IN  /\ key \in DOMAIN sig
         /\ sig[key] /= Null
         /\ IF condition.kind = "scalar"
            THEN StrictEquals(sig[key], condition.val)
            ELSE OperatorSetHolds(sig[key], condition.ops)

\* C17: a rule fires exactly when every key of its trigger is satisfied by
\* the signals, an operator set being satisfied exactly when each of its
\* operators holds; a rule with an empty trigger always fires.
C17_FiresIffAllSatisfied ==
  [][ RuleAtHand => (Fires <=> TriggerSatisfied(CurrentRule, signals)) ]_vars

\* The explanations of the scoring rules of the RuleSet that match the
\* signals, in the order of the rule list.
RECURSIVE FiredExplanations(_, _, _)
FiredExplanations(ruleSet, sig, k) ==
  IF k > Len(ruleSet.rules) THEN <<>>
  ELSE (IF evaluateConditions(ruleSet.rules[k].if, sig).ok
        THEN <<ruleSet.rules[k].explanation>> ELSE <<>>)
       \o FiredExplanations(ruleSet, sig, k + 1)

\* C18: in every result, the "unknown" one included, evidence is the
\* explanations of the scoring rules that fired, in the order they fired,
\* repeated wording kept, and no explanation of an elimination rule.
C18_Evidence ==
  pc = "Calculated" => result.evidence = FiredExplanations(rules, signals, 1)

\* An "unknown" result after an elimination rule and two scoring rules of
\* the same wording fired, every hypothesis the scoring rules name eliminated.
C18_Witness ==
  /\ pc = "Calculated"
  /\ result.primary_cause = "unknown"
  /\ result.evidence = <<"latency is high", "latency is high">>
  /\ Len(appliedRules) = 3
  /\ appliedRules[1].type = "elimination"
  /\ \A k \in 1..Len(hypotheses) : hypotheses[k].eliminated

\* C19: when the total active score is positive, next_steps is the entry of
\* the RuleSet's next_steps table for primary_cause if the table has one, and
\* the three-item fallback list otherwise.
C19_NextSteps ==
  (pc = "Calculated" /\ ActiveSum(hypotheses) > 0) =>
    result.next_steps =
      IF result.primary_cause \in DOMAIN rules.next_steps
      THEN Array(rules.next_steps[result.primary_cause])
      ELSE Array(<<"Review system logs", "Run additional diagnostics",
                   "Contact support if issue persists">>)

IsUnknown == pc = "Calculated" /\ ActiveSum(hypotheses) = 0

\* C20 as claimed: in the "unknown" result, next_steps is a fixed list of
\* exactly three items.
C20_Original ==
  IsUnknown =>
    result.next_steps.t = "array" /\ Len(result.next_steps.items) = 3

\* C20, amended: in the "unknown" result, next_steps is the fixed list of
\* exactly two items "Collect more diagnostic data", "Run additional tests",
\* whatever the RuleSet and the signals are.
C20_UnknownNextSteps ==
  IsUnknown =>
    /\ result.primary_cause = "unknown"
    /\ result.next_steps =
         Array(<<"Collect more diagnostic data", "Run additional tests">>)
    /\ Len(result.next_steps.items) = 2

\* An "unknown" result for signals that made rules fire, under a RuleSet
\* whose next_steps table has entries.
C20_Witness ==
  /\ IsUnknown
  /\ result.primary_cause = "unknown"
  /\ DOMAIN rules.next_steps /= {}
  /\ DOMAIN signals /= {}
  /\ Len(appliedRules) > 0

\* The names of a list that the hypotheses of the RuleSet declare, and the
\* entries of a delta map whose name they declare.
DeclaredNames(ruleSet, names) ==
  LET IsDeclared(name) == OwnHypothesis(ruleSet.hypotheses, name)
  IN  SelectSeq(names, IsDeclared)

DeclaredDeltas(ruleSet, entries) ==
  LET IsDeclared(entry) == OwnHypothesis(ruleSet.hypotheses, entry.name)
  IN  SelectSeq(entries, IsDeclared)

\* C21: a scoring delta or an elimination that names a hypothesis absent from
\* the RuleSet's hypotheses is skipped: the evaluation of a rule creates no
\* hypothesis entry, adds no such name to eliminated_causes, writes to no
\* other object, and leaves the hypotheses as the rule's effects on the
\* declared names alone leave them.
C21_AbsentNameSkipped ==
  [][ RuleAtHand =>
        /\ Len(hypotheses') = Len(hypotheses)
        /\ \A k \in 1..Len(hypotheses) : hypotheses'[k].name = hypotheses[k].name
        /\ \A j \in 1..Len(eliminatedCauses') :
              OwnHypothesis(rules.hypotheses, eliminatedCauses'[j])
        /\ objectFn' = objectFn
        /\ Fires =>
             hypotheses' =
               IF pc = "Eliminating"
               THEN EliminateFrom([hypotheses |-> hypotheses,
                                   eliminatedCauses |-> eliminatedCauses],
                                  DeclaredNames(rules, CurrentRule.eliminate), 1).hypotheses
               ELSE ScoreFrom(hypotheses, DeclaredDeltas(rules, CurrentRule.then), 1)
    ]_vars

\* The result that analyze() gave as the caller reads it on the heap h:
\* all_scores, eliminated_causes and applied_rules are read at the
\* addresses the result holds.
ReadResult(h, r) ==
  [r.result EXCEPT !.all_scores        = ReadHypotheses(h, @),
                   !.eliminated_causes = h[@].items,
                   !.applied_rules     = h[@].items]

\* C22: analyze() leaves the RuleSet as it was: after any sequence of
\* constructions and analyses by the engines built over the one rules
\* object, the object read through the caller's reference has the
\* hypotheses with the names and the initial scores, the two rule lists
\* with their delta maps and the next_steps it had when it was parsed, and
\* no hypothesis of it has an eliminated flag.  (rules is the RuleSet as it
\* was parsed, which no step of these engines assigns.)
C22_RuleSetUnchanged ==
  /\ heap[RuleSetAddress].kind = "rules"
  /\ ReadRuleSet(heap, RuleSetAddress) = rules
  /\ LET table == ReadHypotheses(heap, heap[RuleSetAddress].hypotheses)
     IN  \A k \in 1..Len(table) : ~table[k].eliminated
  /\ \A e \in Engines : engines[e].built => engines[e].rules = RuleSetAddress

\* Both engines were built over the rules object and each has returned a
\* result; the snapshot of one has a hypothesis that is eliminated and one
\* whose score differs from its initial score.
C22_Witness ==
  /\ \A e \in Engines :
        /\ engines[e].built
        /\ \E k \in 1..Len(returned) :
              returned[k].engine = e /\ ~returned[k].thrown
  /\ \E e \in Engines :
        LET snapshot == ReadHypotheses(heap, engines[e].hypotheses)
        IN  /\ \E k \in 1..Len(snapshot) : snapshot[k].eliminated
            /\ \E k \in 1..Len(snapshot) :
                  /\ ~snapshot[k].eliminated
                  /\ snapshot[k].score /= rules.hypotheses[k].score

\* The keys that the triggers of the RuleSet mention.
MentionedKeys(ruleSet) == UNION {TriggerKeys(rule) : rule \in AllRules(ruleSet)}

\* Two signals maps have the same keys among `keys`, with the same values.
AgreeOn(sig1, sig2, keys) ==
  \A k \in keys :
     /\ (k \in DOMAIN sig1) <=> (k \in DOMAIN sig2)
     /\ (k \in DOMAIN sig1) => sig1[k] = sig2[k]

\* C23: a signal that no trigger mentions has no effect: the result returned
\* for a signals map is the result of analysing any signals map that agrees
\* with it on every key mentioned by some trigger of the RuleSet.
C23_UnmentionedSignalsIgnored ==
  pc = "Calculated" =>
     \A sig2 \in SignalMaps :
        AgreeOn(signals, sig2, MentionedKeys(rules)) =>
           FreshAnalyze(rules, sig2) = result

\* analyze() has returned after a rule fired, and the signals held a key
\* that no trigger mentions: a map without it agrees on the mentioned keys.
C23_Witness ==
  /\ pc = "Calculated"
  /\ Len(appliedRules) >= 1
  /\ MentionedKeys(rules) /= {}
  /\ \E k \in DOMAIN signals : k \notin MentionedKeys(rules)
  /\ \E sig2 \in SignalMaps :
        /\ sig2 /= signals
        /\ DOMAIN sig2 /= DOMAIN signals
        /\ AgreeOn(signals, sig2, MentionedKeys(rules))

\* C24: the evaluation of a rule appends exactly one applied-rule record when
\* the rule's trigger matches and none otherwise, whatever the number of
\* hypotheses it changed; the record has the rule's id and explanation, and
\* a scoring record carries the rule's whole delta map.
C24_OneRecordPerFiredRule ==
  [][ RuleAtHand =>
        IF evaluateConditions(CurrentRule.if, signals).ok
        THEN /\ Len(appliedRules') = Len(appliedRules) + 1
             /\ SubSeq(appliedRules', 1, Len(appliedRules)) = appliedRules
             /\ LET rec == appliedRules'[Len(appliedRules')]
                IN  /\ rec.id = CurrentRule.id
                    /\ rec.explanation = CurrentRule.explanation
                    /\ IF pc = "Eliminating"
                       THEN rec.type = "elimination" /\ DOMAIN rec = {"id", "type", "explanation"}
                       ELSE rec.type = "scoring" /\ rec.scores = CurrentRule.then
        ELSE appliedRules' = appliedRules
    ]_vars

\* The scoring rule S4, whose only delta is for "dns", fired after "dns" was
\* eliminated: its record was appended and no hypothesis changed.
C24_Witness ==
  /\ pc = "Scoring"
  /\ Len(appliedRules) >= 1
  /\ appliedRules[Len(appliedRules)].id = "S4"
  /\ appliedRules[Len(appliedRules)].scores = <<Delta("dns", -20)>>
  /\ \E k \in 1..Len(hypotheses) :
        hypotheses[k].name = "dns" /\ hypotheses[k].eliminated

Max0(x) == IF x > 0 THEN x ELSE 0

\* s := max(0, s + delta) over the deltas for `name` in the entries from k on.
RECURSIVE FoldEntries(_, _, _, _)
FoldEntries(s, entries, name, k) ==
  IF k > Len(entries) THEN s
  ELSE FoldEntries(IF entries[k].name = name THEN Max0(s + entries[k].delta) ELSE s,
                   entries, name, k + 1)

\* The same over the scoring records from k on, in the order they were applied.
RECURSIVE FoldRecords(_, _, _, _)
FoldRecords(s, recs, name, k) ==
  IF k > Len(recs) THEN s
  ELSE FoldRecords(IF recs[k].type = "scoring"
                   THEN FoldEntries(s, recs[k].scores, name, 1) ELSE s,
                   recs, name, k + 1)

\* The sum of the deltas for `name` in the scoring records from k on.
RECURSIVE SumEntries(_, _, _)
SumEntries(entries, name, k) ==
  IF k > Len(entries) THEN 0
  ELSE (IF entries[k].name = name THEN entries[k].delta ELSE 0)
       + SumEntries(entries, name, k + 1)

RECURSIVE SumRecords(_, _, _)
SumRecords(recs, name, k) ==
  IF k > Len(recs) THEN 0
  ELSE (IF recs[k].type = "scoring" THEN SumEntries(recs[k].scores, name, 1) ELSE 0)
       + SumRecords(recs, name, k + 1)

\* C25: the floor at 0 is applied after each delta: at every point the score
\* of a hypothesis that is not eliminated is the left fold s := max(0, s + d)
\* of the deltas of the rules that fired so far, in their order, from its
\* initial score.
C25_FloorAfterEachDelta ==
  (InAnalysis \/ pc = "Calculated") =>
     \A k \in 1..Len(hypotheses) :
        ~hypotheses[k].eliminated =>
           hypotheses[k].score =
             FoldRecords(rules.hypotheses[k].score, appliedRules, hypotheses[k].name, 1)

\* "dns" started at 10 and got -20 from S4, then +5 from S6: its score is 5,
\* where max(0, initial + sum of deltas) is 0.
C25_Witness ==
  /\ pc = "Calculated"
  /\ Len(appliedRules) = 2
  /\ appliedRules[1].id = "S4" /\ appliedRules[2].id = "S6"
  /\ hypotheses[1].name = "dns" /\ rules.hypotheses[1].score = 10
  /\ hypotheses[1].score = 5
  /\ Max0(rules.hypotheses[1].score + SumRecords(appliedRules, "dns", 1)) = 0

ListNames(list) == {list[k] : k \in 1..Len(list)}
RankedNames(res) == {res.all_hypotheses[k].name : k \in 1..Len(res.all_hypotheses)}

\* C27: at every point of an analysis the eliminated list holds exactly the
\* hypotheses whose eliminated flag is true; in a ranked result every
\* hypothesis of the RuleSet is in exactly one of eliminated_causes and the
\* ranked list, the two hold nothing else, and primary_cause is not in
\* eliminated_causes.
C27_EliminatedListMatchesFlags ==
  /\ (InAnalysis \/ pc = "Calculated") =>
        ListNames(eliminatedCauses) =
          {hypotheses[k].name : k \in {j \in 1..Len(hypotheses) : hypotheses[j].eliminated}}
  /\ Ranked =>
        /\ ListNames(result.eliminated_causes) \cap RankedNames(result) = {}
        /\ ListNames(result.eliminated_causes) \cup RankedNames(result) =
             {rules.hypotheses[k].name : k \in 1..Len(rules.hypotheses)}
        /\ result.primary_cause \notin ListNames(result.eliminated_causes)

\* analyze() has returned a ranked result and the total active score is > 0.
RankedPositive == pc = "Calculated" /\ ActiveSum(hypotheses) > 0

\* C29 as claimed: when the total active score is > 0, no active hypothesis
\* has a raw score strictly greater than the reported raw_score.
C29_Original ==
  RankedPositive =>
     \A k \in 1..Len(hypotheses) :
        ~hypotheses[k].eliminated => hypotheses[k].score <= result.raw_score

\* C29, amended: when the total active score is > 0, the primary cause has
\* the largest confidence_percent among the active hypotheses, and raw_score
\* is its score; an active hypothesis has a strictly greater raw score only
\* if it rounds to the same confidence_percent and is declared after the
\* primary cause.
C29_PrimaryLargestPercent ==
  RankedPositive =>
     /\ result.primary_cause = result.all_hypotheses[1].name
     /\ result.raw_score = hypotheses[Declared(rules, result.primary_cause)].score
     /\ ~hypotheses[Declared(rules, result.primary_cause)].eliminated
     /\ \A k \in 1..Len(hypotheses) :
           ~hypotheses[k].eliminated =>
              \E j \in 1..Len(result.all_hypotheses) :
                 LET h == result.all_hypotheses[j]
                 IN  /\ h.name = hypotheses[k].name /\ h.score = hypotheses[k].score
                     /\ h.confidence_percent <= result.confidence_percent
                     /\ h.score > result.raw_score =>
                          /\ h.confidence_percent = result.confidence_percent
                          /\ k > Declared(rules, result.primary_cause)

\* "dns" is the primary cause with raw score 50 while "net", declared after
\* it, has raw score 51: both are 50 percent of the total 101.
C29_Witness ==
  /\ RankedPositive
  /\ result.primary_cause = "dns" /\ result.raw_score = 50
  /\ result.confidence_percent = 50
  /\ \E k \in 1..Len(hypotheses) :
        /\ hypotheses[k].name = "net" /\ ~hypotheses[k].eliminated
        /\ hypotheses[k].score = 51

\* C28: a result that analyze() returned is not changed by a later call on
\* the engine (nor by a call on another engine over the same rules, nor by
\* the construction of one): whatever the step, every result returned
\* before it reads after the step as it read before, all_scores,
\* eliminated_causes and applied_rules being read through the references
\* the result holds; and the step leaves no field of an engine referring to
\* an object that an earlier result refers to.
C28_ReturnedResultKept ==
  [][ \A k \in 1..Len(returned) :
         ~returned[k].thrown =>
            /\ ReadResult(heap', returned[k]) = ReadResult(heap, returned[k])
            /\ Len(returned') > Len(returned) =>
                 LET this == engines'[returned'[Len(returned')].engine]
                 IN  {this.hypotheses, this.eliminatedCauses, this.appliedRules}
                       \cap {returned[k].result.all_scores,
                             returned[k].result.eliminated_causes,
                             returned[k].result.applied_rules} = {}
    ]_vars

\* An engine returned a result with an eliminated hypothesis and two
\* records, and a later analysis on the same engine has returned a result
\* that reads otherwise: the earlier one still reads as a fresh analysis of
\* its signals gives it.
C28_Witness ==
  \E j \in 1..Len(returned) : \E k \in 1..Len(returned) :
     /\ j < k
     /\ returned[j].engine = returned[k].engine
     /\ ~returned[j].thrown /\ ~returned[k].thrown
     /\ Len(ReadResult(heap, returned[j]).eliminated_causes) >= 1
     /\ Len(ReadResult(heap, returned[j]).applied_rules) >= 2
     /\ ReadResult(heap, returned[j]).all_scores
          /= ReadResult(heap, returned[k]).all_scores
     /\ ReadResult(heap, returned[j]).applied_rules
          /= ReadResult(heap, returned[k]).applied_rules
     /\ ReadResult(heap, returned[j]) = FreshAnalyze(rules, returned[j].signals)

\* C30: every call of analyzeBottleneckWithEngine yields an analysis: the
\* legacy analysis of its parameters when loadDiagnosticRules returned null
\* to it, when DiagnosticEngine is not defined, or when constructing or
\* running the engine throws, and the mapped result of the engine when it
\* ran without error.
C30_AlwaysAnAnalysis ==
  \A c \in Calls :
     calls[c].pc = "Returned" =>
        /\ calls[c].analysis /= NoAnalysis
        /\ LET run == EngineRun(rules, missing, extractSignals(calls[c].params))
           IN  IF calls[c].loaded = "null" \/ ~engineClass \/ run.thrown
               THEN calls[c].analysis = analyzeBottleneckLegacy(calls[c].params)
               ELSE calls[c].analysis = mapEngineResultToLegacy(run.result)

\* Two calls were in flight at once and both have returned.  One was given
\* the rules, but the file lacks its scoring rules: the engine threw and the
\* call returned the legacy analysis of a slow DNS lookup.  The other was
\* given null although the cache holds the rules by now, and returned the
\* legacy analysis too.
C30_Witness ==
  /\ engineClass /\ missing = "rules"
  /\ diagnosticRules = "rules"
  /\ calls[1].pc = "Returned" /\ calls[1].loaded = "rules"
  /\ calls[1].analysis = LegacyAnalysis("DNS resolution delays", 85)
  /\ calls[2].pc = "Returned" /\ calls[2].loaded = "null"
  /\ calls[2].analysis = LegacyAnalysis("VPN connection overhead", 88)

\* C26: an invocation of analyze() none of whose steps fell between the
\* steps of another invocation on the engine, nor the other way round,
\* returns what it returns when run alone on a new engine; corruption of one
\* invocation by another needs their steps to interleave.
C26_SerialisedRunAlone ==
  \A i \in Invocations :
     (inv[i].pc = "Calculated" /\ ~inv[i].overlapped) =>
        inv[i].result = FreshAnalyze(rules, inv[i].signals)

\* Two invocations were interleaved and one of them has returned a result
\* that differs from the one it returns when run alone.
C26_Witness ==
  \E i \in Invocations :
     /\ inv[i].pc = "Calculated"
     /\ inv[i].overlapped
     /\ inv[3 - i].pc /= "Idle"
     /\ inv[i].result /= FreshAnalyze(rules, inv[i].signals)

=============================================================================
